---- MODULE Spec2Model ----
(***************************************************************************)
(* Verification model of the blog automation pipeline.                     *)
(*                                                                         *)
(*   Spec       the conversation loop of main() in seobot_ai.py with its   *)
(*              dispatcher handle_tool_call().                             *)
(*   SpecStore  blog_creator / blog_inserter against the staging          *)
(*              directory and the canonical store, one publisher.          *)
(*   SpecRace   the same operations run by one publisher or by two whose   *)
(*              store calls interleave.                                    *)
(*   SpecExec   ToolExecutor.execute() of tools/tool_executor.py.          *)
(*   SpecReadTime, SpecRecord, SpecTags, SpecArticle                       *)
(*              the helpers of tools/blog_tools.py applied to bounded      *)
(*              inputs: read time, the staged record, the tags column,     *)
(*              one article from blog_creator to the table.                *)
(*   SpecImage  optimize_image_for_blog() and image_generator() of         *)
(*              tools/image_tools.py and seobot_ai.py.                     *)
(*   SpecWarn   the conversation loop while the store is not configured.   *)
(*   SpecStart  the start of the script or of the package, any of the      *)
(*              credentials missing, followed by the script's main().      *)
(*   SpecCommit one blog_inserter() call of tools/blog_tools.py or of      *)
(*              seobot_ai.py on any staging file, table and store replies. *)
(***************************************************************************)
EXTENDS Integers, Sequences, FiniteSets, TLC

VARIABLES
    \* ---- main() of seobot_ai.py ----
    pc,                 \* control position of main()
    iteration,          \* local `iteration`
    blog_inserted,      \* local `blog_inserted`
    messages,           \* local `messages` (role and kind of every turn)
    response,           \* response.content of the model call of this step
    i,                  \* index of the next item of response.content
    assistant_message,  \* assistant_message["content"] of this step
    tool_results,       \* local `tool_results` of this step
    exit_via,           \* how the while loop was left
    ret,                \* return value of main()
    appended,           \* the turns the last finished step appended to `messages`
    \* ---- history of the run (not program state) ----
    model_calls,        \* number of anthropic.messages.create calls made
    terminal_invoked,   \* a blog_inserter invocation was dispatched
    inserter_ok,        \* a blog_inserter invocation returned status success
    success_step,       \* step of the first such success, 0 if none
    dispatched,         \* indexes of the items of `response` handed to handle_tool_call
    \* ---- staging directory, canonical store and their publishers ----
    configured,         \* Config.SUPABASE_URL and Config.SUPABASE_SERVICE_KEY are set
    now,                \* wall clock, in seconds
    files,              \* staging directory: path -> content of the CSV file
    store,              \* rows of the table blog_posts
    runs,               \* the publishers that are running
    ipc,                \* per publisher: position inside blog_inserter
    csv_file_path,      \* per publisher: argument of its blog_inserter call
    blog_data,          \* per publisher: the row read from the CSV file
    returned,           \* the envelope a tool call returns in this step, if any
    commits,            \* number of blog_inserter calls started
    \* ---- history of the publishers (not program state) ----
    flags,              \* per publisher: facts about its call in progress
    trace,              \* what the blog_inserter call that returns in this step did
    done,               \* path -> the staged row a successful commit read there
    succ,               \* derived slug -> number of commits that returned success
    raced,              \* derived slugs stored by a publisher that was overlapped
    \* ---- ToolExecutor.execute() of tools/tool_executor.py ----
    tool_name,          \* argument `tool_name` of the last call
    tool_input,         \* keys of the argument `tool_input` of the last call
    exec_result,        \* what the last call returned
    escaped,            \* an exception left execute()
    entered,            \* the tool whose body the last call ran, or "none"
    failure,            \* str(e) of the exception the last call handled, or "none"
    calls,              \* number of execute() calls made
    branches,           \* history: the exits of execute() taken so far
    \* ---- calculate_read_time() ----
    word_count,         \* local `word_count`: len(content.split())
    read_time,          \* the value returned for word_count, 0 before the call
    last_read_time,     \* the value returned for word_count - 1, 0 if none
    \* ---- the record blog_creator() builds ----
    impl,               \* which blog_creator ran: "tools" or "script"
    creator_args,       \* the arguments of the call
    written,            \* the dict blog_data written to the CSV file
    \* ---- the tags column, from blog_creator() to blog_inserter() ----
    tag_pc,             \* "idle", "staged" (blog_creator wrote) or "parsed" (blog_inserter read)
    tags,               \* argument `tags` of blog_creator
    tags_cell,          \* the text of the tags cell in the CSV file
    tags_list,          \* local `tags_list` of blog_inserter
    \* ---- one article from blog_creator() to the table blog_posts ----
    art_pc,             \* "idle", "staged" or "committed"
    article,            \* the arguments of the blog_creator call
    csv_row,            \* the row of the CSV file, every cell a text
    posts,              \* rows of the table blog_posts
    commit_result,      \* the envelope blog_inserter returned
    \* ---- optimize_image_for_blog() and image_generator() ----
    img_pc,             \* "idle", "optimized" (optimize_image_for_blog returned) or "generated"
    img_impl,           \* which optimize_image_for_blog ran: "tools" or "script"
    image,              \* (img.width, img.height) of the file at image_path
    target,             \* (target_width, target_height)
    img_fault,          \* the step of the call that raised, "none" if none did
    scaled,             \* argument of img.resize, <<>> if it was not reached
    crop_box,           \* argument of img.crop, the whole image if none was made
    output,             \* size of the image saved at optimized_path, <<>> if none
    opt_path,           \* the path optimize_image_for_blog returned
    img_raised,         \* an exception left optimize_image_for_blog
    disk,               \* the image files that exist
    gen_result,         \* what image_generator returned
    \* ---- one blog_inserter() call on a given staging file and table ----
    commit_pc,          \* "idle" or "returned"
    commit_impl,        \* which blog_inserter ran: "tools" or "script"
    commit_env,         \* what the call finds: configuration, file, table, store replies
    staged_after,       \* the file at csv_file_path after the call
    table_after,        \* the rows of blog_posts after the call
    store_calls,        \* the requests the call sent to the store, in order
    opens,              \* number of open(csv_file_path) the call made
    inserter_result,    \* the envelope the call returned
    \* ---- start of the program ----
    start_pc,           \* "load" (nothing has run), "raised" or "running"
    entry,              \* what is started: "script" (seobot_ai.py) or "package"
    environ,            \* the environment variables that are set to a non-empty value
    startup_error       \* the exception that ended the start, "none" if none

orchVars == <<pc, iteration, blog_inserted, messages, response, i,
              assistant_message, tool_results, exit_via, ret,
              model_calls, terminal_invoked, inserter_ok, success_step,
              appended, dispatched>>

pipeVars == <<configured, now, files, store, runs, ipc, csv_file_path, blog_data,
              returned, commits, flags, trace, done, succ, raced>>

execVars == <<tool_name, tool_input, exec_result, escaped, entered, failure,
              calls, branches>>

readVars == <<word_count, read_time, last_read_time>>

recVars == <<impl, creator_args, written>>

tagVars == <<tag_pc, tags, tags_cell, tags_list>>

artVars == <<art_pc, article, csv_row, posts, commit_result>>

imgVars == <<img_pc, img_impl, image, target, img_fault, scaled, crop_box,
             output, opt_path, img_raised, disk, gen_result>>

commitVars == <<commit_pc, commit_impl, commit_env, staged_after, table_after,
                store_calls, opens, inserter_result>>

startVars == <<start_pc, entry, environ, startup_error>>

pureVars == <<readVars, recVars, tagVars, artVars, imgVars, commitVars, startVars>>

----------------------------------------------------------------------------
(* Bounds of the model                                                     *)

\* largest number of content items in one model response
MaxItems == 2

\* last second of the wall clock
MaxTime == 1

\* largest number of tags in one call
MaxTags == 2

\* largest number of characters of a tag
MaxTagLen == 1

\* largest length of a text argument of blog_creator
MaxLen == 501

\* largest word count of a content
MaxWords == 600

\* largest number of execute() calls in one behaviour
MaxCalls == 3

\* largest number of blog_inserter calls in one behaviour
MaxCommits == 2

----------------------------------------------------------------------------
(* Program constants                                                       *)

max_iterations == 10

NoKeys == {}

ToolNames == {"image_generator", "image_uploader", "blog_creator", "blog_inserter"}

\* a tool name the dispatcher has no branch for (e.g. the native web_search)
UnknownName == "web_search"

\* TOOLS[...]["input_schema"]["required"]
SchemaRequired(name) ==
    CASE name = "image_generator" -> {"prompt"}
      [] name = "image_uploader"  -> {"local_path"}
      [] name = "blog_creator"    -> {"title", "slug", "content", "excerpt", "category", "tags"}
      [] name = "blog_inserter"   -> {"csv_file_path"}
      [] OTHER                    -> NoKeys

\* TOOLS[...]["input_schema"]["properties"]
SchemaProperties(name) ==
    CASE name = "image_generator" -> {"prompt"}
      [] name = "image_uploader"  -> {"local_path", "file_name"}
      [] name = "blog_creator"    -> {"title", "slug", "meta_title", "meta_description",
                                      "content", "excerpt", "featured_image", "category",
                                      "tags", "author"}
      [] name = "blog_inserter"   -> {"csv_file_path"}
      [] OTHER                    -> NoKeys

\* parameters without a default in the signatures of seobot_ai.py
ScriptRequired(name) ==
    CASE name = "image_generator" -> {"prompt"}
      [] name = "image_uploader"  -> {"local_path"}
      [] name = "blog_creator"    -> {"title", "slug", "meta_title", "meta_description",
                                      "content", "excerpt", "featured_image", "category",
                                      "tags"}
      [] name = "blog_inserter"   -> {"csv_file_path"}
      [] OTHER                    -> NoKeys

\* parameters with a default in the signatures of seobot_ai.py
ScriptOptional(name) ==
    CASE name = "image_uploader"  -> {"file_name"}
      [] name = "blog_creator"    -> {"author"}
      [] OTHER                    -> NoKeys

\* f(**tool_args) binds: every parameter without default is given and no
\* keyword is unexpected; otherwise Python raises TypeError at the call
ScriptBinds(name, keys) ==
    /\ ScriptRequired(name) \subseteq keys
    /\ keys \subseteq (ScriptRequired(name) \cup ScriptOptional(name))

\* statuses of the envelopes a tool returns once it has been entered: every
\* tool body is one try/except that returns "success" or "error";
\* blog_inserter of tools/blog_tools.py also returns "warning"
ToolStatuses(name) ==
    IF name = "blog_inserter" THEN {"success", "warning", "error"}
                              ELSE {"success", "error"}

----------------------------------------------------------------------------
(* The reasoning-model collaborator: a response is an ordered list of      *)
(* content items, each free text, a tool invocation, or an item of another *)
(* type (server tool use, search result) that the loop skips.              *)

\* the keyword sets a tool invocation may carry: what the schema requires,
\* everything the schema declares, or nothing at all
ModelInputs(name) == {SchemaRequired(name), SchemaProperties(name), NoKeys}

ToolUseItems ==
    { [type |-> "tool_use", name |-> n, input |-> k] :
        <<n, k>> \in { <<n2, k2>> \in (ToolNames \cup {UnknownName})
                                      \X (SUBSET SchemaProperties("blog_creator")
                                          \cup {{"prompt"}, {"local_path"},
                                                {"local_path", "file_name"},
                                                {"csv_file_path"}}) :
                          k2 \in ModelInputs(n2) } }

TextItem == [type |-> "text", name |-> "", input |-> NoKeys]

OtherItem == [type |-> "server_tool_use", name |-> "", input |-> NoKeys]

ContentItems == ToolUseItems \cup {TextItem, OtherItem}

RECURSIVE SeqsUpTo(_, _)
SeqsUpTo(S, n) ==
    IF n = 0 THEN {<<>>}
    ELSE LET shorter == SeqsUpTo(S, n - 1)
         IN  shorter \cup { Append(s, x) : s \in {t \in shorter : Len(t) = n - 1}, x \in S }

Responses == SeqsUpTo(ContentItems, MaxItems)

IsToolUse(item) == item.type = "tool_use"

NumToolUse(content) == Cardinality({k \in 1..Len(content) : IsToolUse(content[k])})

\* content.id of the k-th item of the response of step `step`
ToolUseId(step, k) == <<step, k>>

----------------------------------------------------------------------------
(* handle_tool_call(tool_name, tool_args)                                  *)

\* the call raises TypeError out of handle_tool_call: f(**tool_args) is not
\* inside any try block
handle_tool_call_raises(name, keys) ==
    /\ name \in ToolNames
    /\ ~ScriptBinds(name, keys)

\* the statuses a tool returns in this run: while the store is not configured
\* blog_inserter of tools/blog_tools.py returns "warning" and nothing else
RunStatuses(name) ==
    IF name = "blog_inserter" /\ ~configured THEN {"warning"} ELSE ToolStatuses(name)

\* the envelopes handle_tool_call can return
handle_tool_call(name, keys) ==
    IF name \notin ToolNames
    THEN {[status |-> "error", message |-> "Unknown tool"]}
    ELSE IF ScriptBinds(name, keys)
         THEN {[status |-> s, message |-> name] : s \in RunStatuses(name)}
         ELSE {}

----------------------------------------------------------------------------
(* main(): the conversation loop                                           *)

\* mutant: the ceiling test is off by one
WhileCond_OffByOne == ~blog_inserted /\ iteration <= max_iterations

\* mutant: the loop test forgets the published flag
WhileCond_IgnoresInserted == iteration < max_iterations

\* the loop condition of `while not blog_inserted and iteration < max_iterations`
WhileCond == ~blog_inserted /\ iteration < max_iterations

\* loop test passes: the body of the loop is entered
WhileEnter ==
    /\ pc = "while"
    /\ WhileCond
    /\ pc' = "body"
    /\ dispatched' = <<>>
    /\ appended' = <<>>
    /\ UNCHANGED <<iteration, blog_inserted, messages, response, i,
                   assistant_message, tool_results, exit_via, ret,
                   model_calls, terminal_invoked, inserter_ok, success_step>>
    /\ UNCHANGED <<pipeVars, execVars, pureVars>>

\* iteration += 1 and the API call returns a response
ModelCall ==
    /\ pc = "body"
    /\ iteration' = iteration + 1
    /\ model_calls' = model_calls + 1
    /\ \E r \in Responses : response' = r
    /\ i' = 1
    /\ assistant_message' = <<>>
    /\ tool_results' = <<>>
    /\ dispatched' = <<>>
    /\ appended' = <<>>
    /\ pc' = "for"
    /\ UNCHANGED <<blog_inserted, messages, exit_via, ret,
                   terminal_invoked, inserter_ok, success_step>>
    /\ UNCHANGED <<pipeVars, execVars, pureVars>>

\* loop test fails: fall out of the while loop
WhileExit ==
    /\ pc = "while"
    /\ ~WhileCond
    /\ pc' = "end"
    /\ exit_via' = "while"
    /\ UNCHANGED <<iteration, blog_inserted, messages, response, i,
                   assistant_message, tool_results, ret,
                   model_calls, terminal_invoked, inserter_ok, success_step,
                   appended, dispatched>>
    /\ UNCHANGED <<pipeVars, execVars, pureVars>>

\* content.type == "text"
ForText ==
    /\ pc = "for"
    /\ i <= Len(response)
    /\ response[i].type = "text"
    /\ assistant_message' = Append(assistant_message, [type |-> "text", id |-> <<>>, name |-> ""])
    /\ i' = i + 1
    /\ UNCHANGED <<pc, iteration, blog_inserted, messages, response,
                   tool_results, exit_via, ret,
                   model_calls, terminal_invoked, inserter_ok, success_step,
                   appended, dispatched>>
    /\ UNCHANGED <<pipeVars, execVars, pureVars>>

\* any other content type: neither branch of the if/elif is taken
ForOther ==
    /\ pc = "for"
    /\ i <= Len(response)
    /\ response[i].type \notin {"text", "tool_use"}
    /\ i' = i + 1
    /\ UNCHANGED <<pc, iteration, blog_inserted, messages, response,
                   assistant_message, tool_results, exit_via, ret,
                   model_calls, terminal_invoked, inserter_ok, success_step,
                   appended, dispatched>>
    /\ UNCHANGED <<pipeVars, execVars, pureVars>>

\* the condition under which the loop sets blog_inserted
IsTerminalSuccess(name, result) ==
    name = "blog_inserter" /\ result.status = "success"

\* mutant: the tool result is not recorded
AppendResult_Dropped(results, id, result) == results

\* tool_results.append({"type": "tool_result", "tool_use_id": content.id,
\*                      "content": json.dumps(result)})
AppendResult(results, id, result) ==
    Append(results, [tool_use_id |-> id, status |-> result.status,
                     message |-> result.message])

\* mutant: the step continues whenever the assistant turn is not empty
HasToolResults_AnyContent == assistant_message # <<>>

\* `if tool_results:` at the end of a step
HasToolResults == tool_results # <<>>

\* content.type == "tool_use" and handle_tool_call returns an envelope
ForToolUse ==
    /\ pc = "for"
    /\ i <= Len(response)
    /\ IsToolUse(response[i])
    /\ \E result \in handle_tool_call(response[i].name, response[i].input) :
         /\ assistant_message' = Append(assistant_message,
                [type |-> "tool_use", id |-> ToolUseId(iteration, i), name |-> response[i].name])
         /\ tool_results' = AppendResult(tool_results, ToolUseId(iteration, i), result)
         /\ blog_inserted' = (blog_inserted \/ IsTerminalSuccess(response[i].name, result))
         /\ inserter_ok' = (inserter_ok \/ (response[i].name = "blog_inserter"
                                            /\ result.status = "success"))
         /\ success_step' = IF success_step = 0 /\ response[i].name = "blog_inserter"
                               /\ result.status = "success"
                            THEN iteration ELSE success_step
    /\ terminal_invoked' = (terminal_invoked \/ response[i].name = "blog_inserter")
    /\ dispatched' = Append(dispatched, i)
    /\ i' = i + 1
    /\ UNCHANGED <<pc, iteration, messages, response, exit_via, ret, model_calls,
                   appended>>
    /\ UNCHANGED <<pipeVars, execVars, pureVars>>

\* content.type == "tool_use" and the call raises: the TypeError leaves the
\* for and while loops, `except Exception` prints it and main returns 1
ForToolUseRaises ==
    /\ pc = "for"
    /\ i <= Len(response)
    /\ IsToolUse(response[i])
    /\ handle_tool_call_raises(response[i].name, response[i].input)
    /\ terminal_invoked' = (terminal_invoked \/ response[i].name = "blog_inserter")
    /\ dispatched' = Append(dispatched, i)
    /\ exit_via' = "except"
    /\ ret' = 1
    /\ pc' = "done"
    /\ UNCHANGED <<iteration, blog_inserted, messages, response, i,
                   assistant_message, tool_results,
                   model_calls, inserter_ok, success_step, appended>>
    /\ UNCHANGED <<pipeVars, execVars, pureVars>>

\* what a turn appended to `messages` holds of assistant_message["content"]:
\* the type and the id of every item
AssistantTurn(content) ==
    [k \in 1..Len(content) |-> [type |-> content[k].type, id |-> content[k].id]]

\* mutant: the results are appended in reverse order
UserTurn_Reversed(results) ==
    [k \in 1..Len(results) |->
        [tool_use_id |-> results[Len(results) + 1 - k].tool_use_id]]

\* what a turn appended to `messages` holds of tool_results: the
\* tool_use_id of every result
UserTurn(results) ==
    [k \in 1..Len(results) |-> [tool_use_id |-> results[k].tool_use_id]]

\* mutant: the assistant turn is not appended before the results
ContinueTurns_OnlyResults == <<[role |-> "user", kind |-> "tool_results"]>>

\* messages.append(assistant_message) and, with tool results,
\* messages.append({"role": "user", "content": tool_results})
ContinueTurns ==
    <<[role |-> "assistant", kind |-> "content"],
      [role |-> "user", kind |-> "tool_results"]>>

\* end of the for loop with tool results: both turns are appended.  The
\* locals of the step are dead from here on (the next iteration rebinds them
\* before any use), so they are cleared.
StepContinue ==
    /\ pc = "for"
    /\ i > Len(response)
    /\ HasToolResults
    /\ messages' = messages \o ContinueTurns
    /\ pc' = "while"
    /\ response' = <<>>
    /\ i' = 1
    /\ assistant_message' = <<>>
    /\ tool_results' = <<>>
    /\ dispatched' = <<>>
    /\ appended' = <<AssistantTurn(assistant_message), UserTurn(tool_results)>>
    /\ UNCHANGED <<iteration, blog_inserted, exit_via, ret,
                   model_calls, terminal_invoked, inserter_ok, success_step>>
    /\ UNCHANGED <<pipeVars, execVars, pureVars>>

\* end of the for loop without tool results: break
StepBreak ==
    /\ pc = "for"
    /\ i > Len(response)
    /\ ~HasToolResults
    /\ messages' = Append(messages, [role |-> "assistant", kind |-> "content"])
    /\ appended' = <<AssistantTurn(assistant_message)>>
    /\ pc' = "end"
    /\ exit_via' = "break"
    /\ UNCHANGED <<iteration, blog_inserted, response, i,
                   assistant_message, tool_results, ret,
                   model_calls, terminal_invoked, inserter_ok, success_step, dispatched>>
    /\ UNCHANGED <<pipeVars, execVars, pureVars>>

\* after the loop: print the outcome and return 0
Finish ==
    /\ pc = "end"
    /\ ret' = 0
    /\ pc' = "done"
    /\ UNCHANGED <<iteration, blog_inserted, messages, response, i,
                   assistant_message, tool_results, exit_via,
                   model_calls, terminal_invoked, inserter_ok, success_step,
                   appended, dispatched>>
    /\ UNCHANGED <<pipeVars, execVars, pureVars>>

vars == <<orchVars, pipeVars, execVars, pureVars>>


----------------------------------------------------------------------------
(* Text: strings are sequences of characters                               *)

Alnum == {"a", "b", "A", "B", "e", "f", "i", "p", "s", "t", "v", "F", "T"}

Lower(c) ==
    CASE c = "A" -> "a" [] c = "B" -> "b" [] c = "F" -> "f" [] c = "T" -> "t"
      [] OTHER -> c

\* every character that is not a letter or digit becomes a hyphen, the
\* others are lower-cased
Hyphenate(t) == [k \in 1..Len(t) |-> IF t[k] \in Alnum THEN Lower(t[k]) ELSE "-"]

\* runs of hyphens shrink to one, hyphens at the start are dropped: a
\* hyphen stays only when the character before it is not a hyphen
Squeeze(t) ==
    LET pairs == [k \in 1..Len(t) |-> <<t[k], IF k > 1 THEN t[k - 1] ELSE "-">>]
        kept  == SelectSeq(pairs, LAMBDA p : p[1] # "-" \/ p[2] # "-")
    IN  [k \in 1..Len(kept) |-> kept[k][1]]

\* slugify(text) of python-slugify: lower-case, ASCII, hyphen-separated
slugify(text) ==
    LET q == Squeeze(Hyphenate(text))
    IN  IF q # <<>> /\ q[Len(q)] = "-" THEN SubSeq(q, 1, Len(q) - 1) ELSE q

\* the slice text[:n]
Truncate(text, n) == SubSeq(text, 1, IF Len(text) < n THEN Len(text) ELSE n)

\* the article fields a caller passes to blog_creator (title, slug)
CreatorInputs ==
    { [title |-> <<"A", " ", "b">>, slug |-> <<>>],
      [title |-> <<"A", "!", "b">>, slug |-> <<"a", "-", "-", "B", " ">>] }

\* `slug or title`
SlugOrTitle(inp) == IF inp.slug # <<>> THEN inp.slug ELSE inp.title

Slugs == { slugify(SlugOrTitle(inp)) : inp \in CreatorInputs }

\* slug of a row that an earlier run published and no input here derives
OtherSlug == <<"b">>

----------------------------------------------------------------------------
(* Staging directory and canonical store                                   *)

Runs == {"run1", "run2"}

Seconds == 0..MaxTime

\* csv_filename = f"blog_{slug}_{datetime.now().strftime('%Y%m%d_%H%M%S')}.csv"
CsvPath(slug, t) == <<slug, t>>

Paths == { CsvPath(sl, t) : sl \in Slugs, t \in Seconds }

NoRow == [kind |-> "none", slug |-> <<>>, title |-> <<>>]

\* a CSV file that holds the header at most: open(path, 'w') truncated it
\* and the write did not complete
EmptyFile == [kind |-> "empty", slug |-> <<>>, title |-> <<>>]

\* mutant: the slug is stored as given, without slugify
CreatorRow_Raw(inp) ==
    [kind |-> "row",
     slug |-> Truncate(SlugOrTitle(inp), 255),
     title |-> Truncate(inp.title, 255)]

\* the dict blog_data that blog_creator writes as the single CSV row
CreatorRow(inp) ==
    [kind |-> "row",
     slug |-> Truncate(slugify(SlugOrTitle(inp)), 255),
     title |-> Truncate(inp.title, 255)]

NoFiles == [q \in {} |-> NoRow]

\* open(csv_path, 'w') ... writer.writerow(blog_data): creates or overwrites
WriteFile(dir, path, content) ==
    [q \in (DOMAIN dir) \cup {path} |-> IF q = path THEN content ELSE dir[q]]

\* mutant: the title column is filled from the slug
StoreRow_TitleFromSlug(data) == [slug |-> data.slug, title |-> data.slug]

\* the row blog_inserter sends to the store
StoreRow(data) == [slug |-> data.slug, title |-> data.title]

\* a row published by an earlier run
PriorRow(sl) == [slug |-> sl, title |-> sl]

InitialStores == {<<>>} \cup { <<PriorRow(sl)>> : sl \in Slugs \cup {OtherSlug} }

\* mutant: the lookup compares the title column
SelectBySlug_ByTitle(rows, sl) ==
    { k \in 1..Len(rows) : rows[k].title = sl }

\* supabase.table('blog_posts').select('id').eq('slug', slug).execute().data
SelectBySlug(rows, sl) ==
    { k \in 1..Len(rows) : rows[k].slug = sl }

\* mutant: the duplicate check never trips
AlreadyExists_Never(existing) == FALSE

\* `if existing.data:`
AlreadyExists(existing) == existing # {}

\* number of rows of the table blog_posts whose slug column is sl
CountSlug(rows, sl) == Cardinality({ k \in 1..Len(rows) : rows[k].slug = sl })

Envelope(tool, status, message, ref) ==
    [tool |-> tool, status |-> status, message |-> message, ref |-> ref]

NoResult == Envelope("none", "none", "none", <<>>)

\* blog_url = f"https://replydaddy.com/blog/{blog_data['slug']}"
BlogUrl(sl) == <<"https://replydaddy.com/blog/", sl>>

\* prior: an earlier commit that read this same row at this path succeeded
\* overlapped: another publisher stored a row with this slug between this
\*             publisher's select and its insert
NoFlags == [prior |-> FALSE, overlapped |-> FALSE]

NoTrace ==
    [run |-> "", path |-> <<>>, data |-> NoRow, select |-> "none", insert |-> "none",
     prior |-> FALSE, overlapped |-> FALSE]

Trace(r, sel, ins) ==
    [run |-> r, path |-> csv_file_path[r], data |-> blog_data[r],
     select |-> sel, insert |-> ins,
     prior |-> flags[r].prior, overlapped |-> flags[r].overlapped]

\* no envelope yet
NoExecResult == [status |-> "none", prefix |-> "", detail |-> ""]

\* a ToolExecutor on which execute() has not been called
ExecInit ==
    /\ tool_name = ""
    /\ tool_input = {}
    /\ exec_result = NoExecResult
    /\ escaped = FALSE
    /\ entered = "none"
    /\ failure = "none"
    /\ calls = 0
    /\ branches = {}

\* image_generator has not returned
NoImage ==
    [status |-> "none", message |-> "none", local_path |-> <<>>,
     dimensions |-> "none"]

\* the environment variables the program reads its credentials from
Credentials == {"ANTHROPIC_API_KEY", "SUPABASE_URL", "SUPABASE_SERVICE_KEY"}

\* the script has been loaded with every credential set
Started ==
    /\ start_pc = "running"
    /\ entry = "script"
    /\ environ = Credentials
    /\ startup_error = "none"

\* no helper function has been called
PureIdle ==
    /\ word_count = 0
    /\ read_time = 0
    /\ last_read_time = 0
    /\ impl = "none"
    /\ creator_args = <<>>
    /\ written = <<>>
    /\ tag_pc = "idle"
    /\ tags = <<>>
    /\ tags_cell = <<>>
    /\ tags_list = <<>>
    /\ art_pc = "idle"
    /\ article = <<>>
    /\ csv_row = <<>>
    /\ posts = <<>>
    /\ commit_result = NoResult
    /\ img_pc = "idle"
    /\ img_impl = "none"
    /\ image = <<>>
    /\ target = <<>>
    /\ img_fault = "none"
    /\ scaled = <<>>
    /\ crop_box = <<>>
    /\ output = <<>>
    /\ opt_path = <<>>
    /\ img_raised = FALSE
    /\ disk = {}
    /\ gen_result = NoImage
    /\ commit_pc = "idle"
    /\ commit_impl = "none"
    /\ commit_env = <<>>
    /\ staged_after = <<>>
    /\ table_after = <<>>
    /\ store_calls = <<>>
    /\ opens = 0
    /\ inserter_result = NoResult

PureInit == PureIdle /\ Started

\* the conversation loop before its first step
OrchInit ==
    /\ pc = "while"
    /\ iteration = 0
    /\ blog_inserted = FALSE
    /\ messages = <<[role |-> "user", kind |-> "text"]>>
    /\ response = <<>>
    /\ i = 1
    /\ assistant_message = <<>>
    /\ tool_results = <<>>
    /\ exit_via = "none"
    /\ ret = -1
    /\ model_calls = 0
    /\ terminal_invoked = FALSE
    /\ inserter_ok = FALSE
    /\ success_step = 0
    /\ appended = <<>>
    /\ dispatched = <<>>

\* empty staging directory, idle publishers
InitPipe(active) ==
    /\ configured \in BOOLEAN
    /\ now = 0
    /\ files = NoFiles
    /\ store \in InitialStores
    /\ runs = active
    /\ ipc = [r \in Runs |-> "idle"]
    /\ csv_file_path = [r \in Runs |-> <<>>]
    /\ blog_data = [r \in Runs |-> NoRow]
    /\ returned = NoResult
    /\ commits = 0
    /\ flags = [r \in Runs |-> NoFlags]
    /\ trace = NoTrace
    /\ done = [q \in Paths |-> NoRow]
    /\ succ = [sl \in Slugs |-> 0]
    /\ raced = {}

\* one second passes
Tick ==
    /\ now < MaxTime
    /\ now' = now + 1
    /\ returned' = NoResult
    /\ trace' = NoTrace
    /\ UNCHANGED <<configured, files, store, runs, ipc, csv_file_path, blog_data,
                   commits, flags, done, succ, raced>>
    /\ UNCHANGED <<orchVars, execVars, pureVars>>

\* blog_creator(...) returns status success: the CSV file is written
blog_creator(r, inp) ==
    /\ ipc[r] = "idle"
    /\ LET csv_path == CsvPath(slugify(SlugOrTitle(inp)), now)
       IN  /\ files' = WriteFile(files, csv_path, CreatorRow(inp))
           /\ returned' = Envelope("blog_creator", "success", "created", csv_path)
    /\ trace' = NoTrace
    /\ UNCHANGED <<configured, now, store, runs, ipc, csv_file_path, blog_data,
                   commits, flags, done, succ, raced>>
    /\ UNCHANGED <<orchVars, execVars, pureVars>>

\* mutant: the exception of the failed write leaves blog_creator
CreatorFailure_Raised == Envelope("blog_creator", "raised", "create_failed", <<>>)

\* `except Exception as e: return {"status": "error", "message": ...}`
CreatorFailure == Envelope("blog_creator", "error", "create_failed", <<>>)

\* blog_creator(...) hits a local I/O error and returns status error.  The
\* error strikes before open() ("nothing"), between open() and the end of
\* writerow() ("truncated"), or after the CSV file is complete ("written").
blog_creator_io_error(r, inp, how) ==
    /\ ipc[r] = "idle"
    /\ LET csv_path == CsvPath(slugify(SlugOrTitle(inp)), now)
       IN  files' = CASE how = "nothing"   -> files
                      [] how = "truncated" -> WriteFile(files, csv_path, EmptyFile)
                      [] how = "written"   -> WriteFile(files, csv_path, CreatorRow(inp))
    /\ returned' = CreatorFailure
    /\ trace' = NoTrace
    /\ UNCHANGED <<configured, now, store, runs, ipc, csv_file_path, blog_data,
                   commits, flags, done, succ, raced>>
    /\ UNCHANGED <<orchVars, execVars, pureVars>>

\* a blog_inserter call returns: its locals are gone
Return(r, env, sel, ins) ==
    /\ returned' = env
    /\ trace' = Trace(r, sel, ins)
    /\ ipc' = [ipc EXCEPT ![r] = "idle"]
    /\ csv_file_path' = [csv_file_path EXCEPT ![r] = <<>>]
    /\ blog_data' = [blog_data EXCEPT ![r] = NoRow]

\* blog_inserter(csv_file_path), store not configured: status warning
InserterNotConfigured(r, path) ==
    /\ ipc[r] = "idle"
    /\ commits < MaxCommits
    /\ ~configured
    /\ commits' = commits + 1
    /\ returned' = Envelope("blog_inserter", "warning", "not_configured", <<>>)
    /\ trace' = [NoTrace EXCEPT !.run = r, !.path = path]
    /\ UNCHANGED <<configured, now, files, store, runs, ipc, csv_file_path, blog_data,
                   flags, done, succ, raced>>
    /\ UNCHANGED <<orchVars, execVars, pureVars>>

\* open(csv_file_path) raises FileNotFoundError
InserterFileNotFound(r, path) ==
    /\ ipc[r] = "idle"
    /\ commits < MaxCommits
    /\ configured
    /\ path \notin DOMAIN files
    /\ commits' = commits + 1
    /\ returned' = Envelope("blog_inserter", "error", "not_found", <<>>)
    /\ trace' = [NoTrace EXCEPT !.run = r, !.path = path]
    /\ UNCHANGED <<configured, now, files, store, runs, ipc, csv_file_path, blog_data,
                   flags, done, succ, raced>>
    /\ UNCHANGED <<orchVars, execVars, pureVars>>

\* next(reader) raises StopIteration on a file without a data row
InserterEmptyFile(r, path) ==
    /\ ipc[r] = "idle"
    /\ commits < MaxCommits
    /\ configured
    /\ path \in DOMAIN files
    /\ files[path].kind = "empty"
    /\ commits' = commits + 1
    /\ returned' = Envelope("blog_inserter", "error", "failed", <<>>)
    /\ trace' = [NoTrace EXCEPT !.run = r, !.path = path, !.data = EmptyFile]
    /\ UNCHANGED <<configured, now, files, store, runs, ipc, csv_file_path, blog_data,
                   flags, done, succ, raced>>
    /\ UNCHANGED <<orchVars, execVars, pureVars>>

\* the guard shared by the calls that read a staged row: the CSV file at
\* `path` holds a row, which next(reader) returns
InserterReads(r, path) ==
    /\ ipc[r] = "idle"
    /\ commits < MaxCommits
    /\ configured
    /\ path \in DOMAIN files
    /\ files[path].kind = "row"
    /\ commits' = commits + 1

\* what a call that ends at its select leaves behind
SelectTrace(r, path, sel) ==
    [run |-> r, path |-> path, data |-> files[path], select |-> sel, insert |-> "none",
     prior |-> (done[path] = files[path]), overlapped |-> FALSE]

\* the staged row is read and the select raises: `except Exception` returns
\* status error
InserterSelectRaises(r, path) ==
    /\ InserterReads(r, path)
    /\ returned' = Envelope("blog_inserter", "error", "failed", <<>>)
    /\ trace' = SelectTrace(r, path, "raise")
    /\ UNCHANGED <<configured, now, files, store, runs, ipc, csv_file_path, blog_data,
                   flags, done, succ, raced>>
    /\ UNCHANGED <<orchVars, execVars, pureVars>>

\* the staged row is read and the select finds a row with its slug: status
\* error, already exists
InserterExists(r, path) ==
    /\ InserterReads(r, path)
    /\ AlreadyExists(SelectBySlug(store, files[path].slug))
    /\ returned' = Envelope("blog_inserter", "error", "exists", files[path].slug)
    /\ trace' = SelectTrace(r, path, "found")
    /\ UNCHANGED <<configured, now, files, store, runs, ipc, csv_file_path, blog_data,
                   flags, done, succ, raced>>
    /\ UNCHANGED <<orchVars, execVars, pureVars>>

\* the staged row is read and the select finds nothing: the insert is the
\* next store call.  (Reading the file touches nothing another publisher
\* sees, so it is one step with the select that follows it.)
InserterCheckPassed(r, path) ==
    /\ InserterReads(r, path)
    /\ ~AlreadyExists(SelectBySlug(store, files[path].slug))
    /\ csv_file_path' = [csv_file_path EXCEPT ![r] = path]
    /\ blog_data' = [blog_data EXCEPT ![r] = files[path]]
    /\ ipc' = [ipc EXCEPT ![r] = "insert"]
    /\ flags' = [flags EXCEPT ![r] = [prior |-> (done[path] = files[path]),
                                      overlapped |-> FALSE]]
    /\ returned' = NoResult
    /\ trace' = NoTrace
    /\ UNCHANGED <<configured, now, files, store, runs, done, succ, raced>>
    /\ UNCHANGED <<orchVars, execVars, pureVars>>

\* publisher r stores a row with slug sl (or not): every other publisher
\* that is between its select and its insert for that slug is overlapped
FlagsAfterInsert(r, sl, stored) ==
    [q \in Runs |->
        IF q = r THEN NoFlags
        ELSE IF stored /\ ipc[q] = "insert" /\ blog_data[q].slug = sl
             THEN [flags[q] EXCEPT !.overlapped = TRUE]
             ELSE flags[q]]

\* the slug under which blog_creator staged the file at `path`
DerivedSlug(path) == path[1]

RacedAfterInsert(r, stored) ==
    IF stored /\ flags[r].overlapped
    THEN raced \cup {DerivedSlug(csv_file_path[r])}
    ELSE raced

\* the insert returns the inserted row: status success with the public URL
InserterInsertConfirmed(r) ==
    /\ ipc[r] = "insert"
    /\ store' = Append(store, StoreRow(blog_data[r]))
    /\ Return(r, Envelope("blog_inserter", "success", "inserted",
                          BlogUrl(blog_data[r].slug)), "empty", "data")
    /\ flags' = FlagsAfterInsert(r, blog_data[r].slug, TRUE)
    /\ done' = [done EXCEPT ![csv_file_path[r]] = blog_data[r]]
    /\ succ' = [succ EXCEPT ![DerivedSlug(csv_file_path[r])] = @ + 1]
    /\ raced' = RacedAfterInsert(r, TRUE)
    /\ UNCHANGED <<configured, now, files, runs, commits>>
    /\ UNCHANGED <<orchVars, execVars, pureVars>>

\* the insert returns no data: status error.  Whether the store kept the
\* row is not known to the caller.
InserterInsertNoData(r, stored) ==
    /\ ipc[r] = "insert"
    /\ store' = IF stored THEN Append(store, StoreRow(blog_data[r])) ELSE store
    /\ Return(r, Envelope("blog_inserter", "error", "no_data", <<>>), "empty", "nodata")
    /\ flags' = FlagsAfterInsert(r, blog_data[r].slug, stored)
    /\ raced' = RacedAfterInsert(r, stored)
    /\ UNCHANGED <<configured, now, files, runs, commits, done, succ>>
    /\ UNCHANGED <<orchVars, execVars, pureVars>>

\* the insert raises: `except Exception` returns status error.  Whether the
\* store kept the row is not known to the caller.
InserterInsertRaises(r, stored) ==
    /\ ipc[r] = "insert"
    /\ store' = IF stored THEN Append(store, StoreRow(blog_data[r])) ELSE store
    /\ Return(r, Envelope("blog_inserter", "error", "failed", <<>>), "empty", "raise")
    /\ flags' = FlagsAfterInsert(r, blog_data[r].slug, stored)
    /\ raced' = RacedAfterInsert(r, stored)
    /\ UNCHANGED <<configured, now, files, runs, commits, done, succ>>
    /\ UNCHANGED <<orchVars, execVars, pureVars>>

NextStore ==
    \/ Tick
    \/ \E r \in runs, inp \in CreatorInputs : blog_creator(r, inp)
    \/ \E r \in runs, inp \in CreatorInputs, how \in {"nothing", "truncated", "written"} :
          blog_creator_io_error(r, inp, how)
    \/ \E r \in runs, path \in Paths : InserterNotConfigured(r, path)
    \/ \E r \in runs, path \in Paths : InserterFileNotFound(r, path)
    \/ \E r \in runs, path \in Paths : InserterEmptyFile(r, path)
    \/ \E r \in runs, path \in Paths : InserterSelectRaises(r, path)
    \/ \E r \in runs, path \in Paths : InserterExists(r, path)
    \/ \E r \in runs, path \in Paths : InserterCheckPassed(r, path)
    \/ \E r \in runs : InserterInsertConfirmed(r)
    \/ \E r \in runs, stored \in BOOLEAN : InserterInsertNoData(r, stored)
    \/ \E r \in runs, stored \in BOOLEAN : InserterInsertRaises(r, stored)

\* one publisher: each blog_inserter call runs to completion before the next
InitStore == OrchInit /\ InitPipe({"run1"}) /\ ExecInit /\ PureInit

SpecStore == InitStore /\ [][NextStore]_vars

\* one publisher, or two publishers whose store calls interleave on a store
\* that starts empty
InitRace ==
    /\ OrchInit
    /\ ExecInit
    /\ PureInit
    /\ \E active \in {{"run1"}, Runs} : InitPipe(active)
    /\ runs = Runs => store = <<>>

SpecRace == InitRace /\ [][NextStore]_vars

\* no publisher is running: the staging directory and the store stay empty
NoPublisher == InitPipe({}) /\ configured = TRUE /\ store = <<>>

----------------------------------------------------------------------------
(* ToolExecutor.execute() of tools/tool_executor.py, over the tools of     *)
(* tools/image_tools.py and tools/blog_tools.py                            *)

\* self.tools: the names execute() has a function for
tools == {"image_generator", "image_uploader", "blog_creator", "blog_inserter"}

\* parameters without a default in the signatures of the tools package
ToolsRequired(name) ==
    CASE name = "image_generator" -> {"prompt"}
      [] name = "image_uploader"  -> {"local_path"}
      [] name = "blog_creator"    -> {"title", "slug", "content", "excerpt", "category", "tags"}
      [] name = "blog_inserter"   -> {"csv_file_path"}
      [] OTHER                    -> {}

\* parameters with a default in the signatures of the tools package
ToolsOptional(name) ==
    CASE name = "image_uploader" -> {"file_name"}
      [] name = "blog_creator"   -> {"featured_image", "meta_title", "meta_description", "author"}
      [] OTHER                   -> {}

\* tool_function(**tool_input) binds: every parameter without a default is
\* given, and no name is given that the signature does not have
Binds(name, keys) ==
    /\ ToolsRequired(name) \subseteq keys
    /\ keys \subseteq (ToolsRequired(name) \cup ToolsOptional(name))

\* the key sets execute() is called with for a registered tool
ExecInputs(name) ==
    { ToolsRequired(name),
      ToolsRequired(name) \cup ToolsOptional(name),
      ToolsRequired(name) \cup {"unexpected"},
      (ToolsRequired(name) \cup ToolsOptional(name)) \ {CHOOSE k \in ToolsRequired(name) : TRUE},
      {} }


\* str(e) of the exceptions raised inside a tool body
ExceptionTexts == {"timed out", "permission denied"}

Env(status, prefix, detail) == [status |-> status, prefix |-> prefix, detail |-> detail]

\* the envelopes of the return statements of a tool body, those of its
\* specific handlers included (blog_inserter: `except FileNotFoundError`)
ToolReturns(name) ==
    CASE name = "image_generator" ->
            { Env("error", "GEMINI_API_KEY not configured", ""),
              Env("error", "No images generated", ""),
              Env("success", "Image generated", "") }
      [] name = "image_uploader" ->
            { Env("error", "Supabase bucket configuration missing", ""),
              Env("success", "Image uploaded successfully", "") }
      [] name = "blog_creator" ->
            { Env("success", "Blog created successfully", "") }
      [] name = "blog_inserter" ->
            { Env("warning", "Supabase not configured - blog saved locally only", ""),
              Env("error", "Blog with slug already exists", ""),
              Env("success", "Blog inserted successfully", ""),
              Env("error", "Failed to insert blog: No data returned", ""),
              Env("error", "CSV file not found", "csv_file_path") }

\* the message prefix of the `except Exception as e` handler of a tool body
HandlerPrefix(name) ==
    CASE name = "image_generator" -> "Failed to generate image"
      [] name = "image_uploader"  -> "Failed to upload image"
      [] name = "blog_creator"    -> "Failed to create blog"
      [] name = "blog_inserter"   -> "Error inserting blog"

\* the handlers that print before they return: the print can itself raise
\* (closed or non-encoding stdout), and that exception leaves the tool
HandlerPrints(name) == name \in {"image_generator", "blog_inserter"}

\* str(e) of the TypeError that tool_function(**tool_input) raises
BindError(name, keys) ==
    IF keys \ (ToolsRequired(name) \cup ToolsOptional(name)) # {}
    THEN "got an unexpected keyword argument"
    ELSE "missing required positional argument"

\* the exception classes that reach execute(): TypeError from the call, and
\* what print raises (OSError, ValueError); all derive from Exception
ExceptionClasses == {"TypeError", "OSError", "ValueError"}

\* mutant: execute() has no `except Exception` clause
ExceptClauses_OnlyTypeError == <<"TypeError">>

\* the except clauses of the try statement of execute(), in order
ExceptClauses == <<"TypeError", "Exception">>

\* isinstance(e, clause) for e of class cls
Matches(cls, clause) == clause = cls \/ clause = "Exception"

\* the first except clause that matches, "none" if the exception propagates
Handler(cls) ==
    LET hits == { k \in 1..Len(ExceptClauses) : Matches(cls, ExceptClauses[k]) }
    IN  IF hits = {} THEN "none"
        ELSE ExceptClauses[CHOOSE k \in hits : \A j \in hits : k <= j]

\* what the try statement of execute() makes of an exception e of class cls
Convert(cls, e) ==
    /\ escaped' = (escaped \/ Handler(cls) = "none")
    /\ exec_result' =
          CASE Handler(cls) = "TypeError" -> Env("error", "Invalid parameters for tool", e)
            [] Handler(cls) = "Exception" -> Env("error", "Error executing tool", e)
            [] OTHER                      -> NoExecResult

\* bookkeeping shared by every exit of execute()
Executed(name, keys, branch) ==
    /\ calls < MaxCalls
    /\ calls' = calls + 1
    /\ tool_name' = name
    /\ tool_input' = keys
    /\ branches' = branches \cup {branch}
    /\ UNCHANGED <<orchVars, pipeVars, pureVars>>

\* `if tool_name not in self.tools: return {...}`
ExecuteUnknown(name, keys) ==
    /\ name \notin tools
    /\ exec_result' = Env("error", "Unknown tool", name)
    /\ entered' = "none"
    /\ failure' = "none"
    /\ UNCHANGED escaped
    /\ Executed(name, keys, "unknown")

\* tool_function(**tool_input) raises TypeError before the body is entered;
\* `except TypeError as e` converts it
ExecuteTypeError(name, keys) ==
    /\ name \in tools
    /\ ~Binds(name, keys)
    /\ Convert("TypeError", BindError(name, keys))
    /\ entered' = "none"
    /\ failure' = BindError(name, keys)
    /\ Executed(name, keys, "typeerror")

\* the tool body runs to one of its return statements; `return result`
ExecuteReturns(name, keys, env) ==
    /\ name \in tools
    /\ Binds(name, keys)
    /\ env \in ToolReturns(name)
    /\ exec_result' = env
    /\ entered' = name
    /\ failure' = "none"
    /\ UNCHANGED escaped
    /\ Executed(name, keys, "return")

\* the tool body raises e; the tool's own `except Exception as e` returns
\* the error envelope with str(e); `return result`
ExecuteToolFails(name, keys, e) ==
    /\ name \in tools
    /\ Binds(name, keys)
    /\ exec_result' = Env("error", HandlerPrefix(name), e)
    /\ entered' = name
    /\ failure' = e
    /\ UNCHANGED escaped
    /\ Executed(name, keys, "tool_error")

\* the tool body raises, and the print of the tool's handler raises e in
\* turn: e leaves the tool and `except Exception as e` of execute() converts it
ExecuteException(name, keys, cls, e) ==
    /\ name \in tools
    /\ Binds(name, keys)
    /\ HandlerPrints(name)
    /\ Convert(cls, e)
    /\ entered' = name
    /\ failure' = e
    /\ Executed(name, keys, "exception")

NextExec ==
    \/ \E keys \in {{}, {"query"}} : ExecuteUnknown(UnknownName, keys)
    \/ \E name \in tools : \E keys \in ExecInputs(name) : ExecuteTypeError(name, keys)
    \/ \E name \in tools : \E keys \in ExecInputs(name) :
          \E env \in ToolReturns(name) : ExecuteReturns(name, keys, env)
    \/ \E name \in tools : \E keys \in ExecInputs(name) :
          \E e \in ExceptionTexts : ExecuteToolFails(name, keys, e)
    \/ \E name \in tools : \E keys \in ExecInputs(name) :
          \E cls \in ExceptionClasses \ {"TypeError"}, e \in ExceptionTexts :
             ExecuteException(name, keys, cls, e)

InitExec == OrchInit /\ NoPublisher /\ ExecInit /\ PureInit

SpecExec == InitExec /\ [][NextExec]_vars

----------------------------------------------------------------------------
(* calculate_read_time() of tools/blog_tools.py and seobot_ai.py           *)

\* the other components at rest
Rest == OrchInit /\ NoPublisher /\ ExecInit

words_per_minute == 200

\* mutant: a tie is rounded up
PyRound_HalfUp(n, d) ==
    IF 2 * (n % d) < d THEN n \div d ELSE (n \div d) + 1

\* round(n / d) of Python 3 for n >= 0, d > 0: to the nearest integer, a tie
\* to the even one
PyRound(n, d) ==
    LET q == n \div d
        r == n % d
    IN  IF 2 * r < d THEN q
        ELSE IF 2 * r > d THEN q + 1
        ELSE IF q % 2 = 0 THEN q ELSE q + 1

Max(a, b) == IF a >= b THEN a ELSE b

\* max(1, round(word_count / words_per_minute))
calculate_read_time(wc) == Max(1, PyRound(wc, words_per_minute))

\* calculate_read_time(content) is called on a content of word_count words
CalcReadTime ==
    /\ read_time = 0
    /\ read_time' = calculate_read_time(word_count)
    /\ UNCHANGED <<word_count, last_read_time>>
    /\ UNCHANGED <<orchVars, pipeVars, execVars, startVars, imgVars, commitVars, recVars,
                   tagVars, artVars>>

\* the next content has one word more
AddWord ==
    /\ read_time # 0
    /\ word_count < MaxWords
    /\ word_count' = word_count + 1
    /\ last_read_time' = read_time
    /\ read_time' = 0
    /\ UNCHANGED <<orchVars, pipeVars, execVars, startVars, imgVars, commitVars, recVars,
                   tagVars, artVars>>

NextReadTime == CalcReadTime \/ AddWord

InitReadTime == Rest /\ PureInit

SpecReadTime == InitReadTime /\ [][NextReadTime]_vars

----------------------------------------------------------------------------
(* The record blog_creator() builds, in tools/blog_tools.py and in         *)
(* seobot_ai.py                                                            *)

\* a text of n characters that starts at position `off` of a repeating
\* pattern, so that the texts of different arguments differ
Chars(n, off) ==
    LET pattern == <<"a", "B", " ", "b", "A", "!">>
    IN  [k \in 1..n |-> pattern[((k + off) % Len(pattern)) + 1]]

\* the lengths the arguments are given: around every limit, and 300
Lengths ==
    { n \in 0..MaxLen : \/ n % 50 \in {0, 1, 49}
                        \/ n \in {254, 255, 256} }

\* the arguments of a call: every text has n characters; the optional
\* arguments are given (meta) or left at their defaults
CreatorArgs(n, meta) ==
    [title            |-> Chars(n, 0),
     slug             |-> IF meta THEN Chars(n, 1) ELSE <<>>,
     meta_title       |-> IF meta THEN Chars(n, 2) ELSE <<>>,
     meta_description |-> IF meta THEN Chars(n, 3) ELSE <<>>,
     excerpt          |-> Chars(n, 4),
     featured_image   |-> IF meta THEN Chars(n, 5) ELSE <<>>,
     category         |-> Chars(n, 6),
     author           |-> Chars(n, 7)]

\* `a or b` on strings
Or(a, b) == IF a # <<>> THEN a ELSE b

\* 'excerpt': excerpt[:500] in blog_tools.py, 'excerpt': excerpt in seobot_ai.py
Excerpt(which, excerpt) ==
    IF which = "tools" THEN Truncate(excerpt, 500) ELSE excerpt

\* the dict blog_data: its text columns
BlogData(which, a) ==
    [slug             |-> Truncate(slugify(Or(a.slug, a.title)), 255),
     title            |-> Truncate(a.title, 255),
     meta_title       |-> Truncate(Or(a.meta_title, a.title), 100),
     meta_description |-> Truncate(Or(a.meta_description, a.excerpt), 255),
     excerpt          |-> Excerpt(which, a.excerpt),
     featured_image   |-> IF a.featured_image # <<>>
                          THEN Truncate(a.featured_image, 500) ELSE <<>>,
     category         |-> Truncate(a.category, 100),
     author           |-> Truncate(a.author, 100)]

\* blog_creator(...) builds blog_data and writes it
CreatorBuilds(which, n, meta) ==
    /\ impl' = which
    /\ creator_args' = CreatorArgs(n, meta)
    /\ written' = BlogData(which, CreatorArgs(n, meta))
    /\ UNCHANGED <<orchVars, pipeVars, execVars, startVars, imgVars, commitVars,
                   readVars, tagVars, artVars>>

NextRecord ==
    \E which \in {"tools", "script"}, n \in Lengths, meta \in BOOLEAN :
       CreatorBuilds(which, n, meta)

InitRecord == Rest /\ PureInit

SpecRecord == InitRecord /\ [][NextRecord]_vars

----------------------------------------------------------------------------
(* The tags column: written by blog_creator(), read back by                *)
(* blog_inserter()                                                         *)

DQ == "\""

\* the characters tags are made of
TagChars == {"a", "b", ",", DQ, "{", "}", " "}

Tags == UNION { [1..n -> TagChars] : n \in 0..MaxTagLen }

TagLists == UNION { [1..n -> Tags] : n \in 0..MaxTags }

\* sep.join(parts)
RECURSIVE Join(_, _)
Join(parts, sep) ==
    IF parts = <<>> THEN <<>>
    ELSE IF Len(parts) = 1 THEN parts[1]
    ELSE parts[1] \o sep \o Join(Tail(parts), sep)

\* '{' + ','.join([f'"{tag}"' for tag in tags]) + '}'
TagLiteral(ts) ==
    <<"{">> \o Join([k \in 1..Len(ts) |-> <<DQ>> \o ts[k] \o <<DQ>>], <<",">>) \o <<"}">>

\* every double quote of t doubled
RECURSIVE Doubled(_)
Doubled(t) ==
    IF t = <<>> THEN <<>>
    ELSE (IF Head(t) = DQ THEN <<DQ, DQ>> ELSE <<Head(t)>>) \o Doubled(Tail(t))

\* csv.DictWriter (QUOTE_MINIMAL): a cell that holds the delimiter or the
\* quote character is quoted, its quotes doubled
CsvWrite(t) ==
    IF \E k \in 1..Len(t) : t[k] \in {",", DQ}
    THEN <<DQ>> \o Doubled(t) \o <<DQ>>
    ELSE t

\* every pair of double quotes of t replaced by one
RECURSIVE Undoubled(_)
Undoubled(t) ==
    IF Len(t) < 2 THEN t
    ELSE IF t[1] = DQ /\ t[2] = DQ THEN <<DQ>> \o Undoubled(SubSeq(t, 3, Len(t)))
    ELSE <<t[1]>> \o Undoubled(Tail(t))

\* csv.DictReader on a cell csv.DictWriter wrote
CsvRead(cell) ==
    IF cell # <<>> /\ cell[1] = DQ
    THEN Undoubled(SubSeq(cell, 2, Len(cell) - 1))
    ELSE cell

\* t.strip(chars)
Strip(t, chars) ==
    LET keep == { k \in 1..Len(t) : t[k] \notin chars }
    IN  IF keep = {} THEN <<>>
        ELSE SubSeq(t, CHOOSE k \in keep : \A j \in keep : k <= j,
                       CHOOSE k \in keep : \A j \in keep : k >= j)

\* t.split(sep) for a one-character sep
RECURSIVE SplitFrom(_, _, _)
SplitFrom(t, sep, cur) ==
    IF t = <<>> THEN <<cur>>
    ELSE IF Head(t) = sep THEN <<cur>> \o SplitFrom(Tail(t), sep, <<>>)
    ELSE SplitFrom(Tail(t), sep, Append(cur, Head(t)))

Split(t, sep) == SplitFrom(t, sep, <<>>)

\* tags_str = blog_data['tags'].strip('{}')
\* tags_list = [tag.strip().strip('"') for tag in tags_str.split(',') if tag.strip()]
ParseTags(text) ==
    LET tags_str == Strip(text, {"{", "}"})
        pieces   == Split(tags_str, ",")
        nonblank == SelectSeq(pieces, LAMBDA piece : Strip(piece, {" "}) # <<>>)
    IN  [k \in 1..Len(nonblank) |-> Strip(Strip(nonblank[k], {" "}), {DQ})]

\* blog_creator(tags=ts) writes the tags cell of the CSV file
StageTags(ts) ==
    /\ tag_pc = "idle"
    /\ tags' = ts
    /\ tags_cell' = CsvWrite(TagLiteral(ts))
    /\ tag_pc' = "staged"
    /\ UNCHANGED tags_list
    /\ UNCHANGED <<orchVars, pipeVars, execVars, startVars, imgVars, commitVars,
                   readVars, recVars, artVars>>

\* blog_inserter reads the cell and parses it
ReadTags ==
    /\ tag_pc = "staged"
    /\ tags_list' = ParseTags(CsvRead(tags_cell))
    /\ tag_pc' = "parsed"
    /\ UNCHANGED <<tags, tags_cell>>
    /\ UNCHANGED <<orchVars, pipeVars, execVars, startVars, imgVars, commitVars,
                   readVars, recVars, artVars>>

NextTags ==
    \/ /\ tag_pc = "idle"
       /\ \E ts \in TagLists : StageTags(ts)
    \/ ReadTags

InitTags == Rest /\ PureInit

SpecTags == InitTags /\ [][NextTags]_vars

----------------------------------------------------------------------------
(* One article from blog_creator() to the table blog_posts                 *)
(* (tools/blog_tools.py)                                                   *)

Digits == <<"0", "1", "2", "3", "4", "5", "6", "7", "8", "9">>

\* str(n) for n >= 0
RECURSIVE Str(_)
Str(n) ==
    IF n < 10 THEN <<Digits[n + 1]>>
    ELSE Str(n \div 10) \o <<Digits[(n % 10) + 1]>>

DigitValue(c) == (CHOOSE k \in 1..10 : Digits[k] = c) - 1

\* int(text) for a text of decimal digits
RECURSIVE ParseInt(_)
ParseInt(text) ==
    IF Len(text) = 1 THEN DigitValue(text[1])
    ELSE 10 * ParseInt(SubSeq(text, 1, Len(text) - 1)) + DigitValue(text[Len(text)])

\* word counts of the bodies
BodyWords == {0, 100, 199, 200, 299, 300, 400}

FiveTips == <<"F", "i", "v", "e", " ", "T", "i", "p", "s">>

five_tips == <<"f", "i", "v", "e", "-", "t", "i", "p", "s">>

\* the articles staged: the title 'Five Tips' with the slug given or left
\* empty, a body of `words` words, a tag list
\* the tag lists of the articles
ArticleTags ==
    { <<>>, << <<"a">> >>, << <<"a">>, <<"b">> >>, << <<"b">>, <<"a">> >>,
      << <<"a", ",", "b">> >> }

Articles ==
    [title : {FiveTips}, slug : {five_tips, <<>>}, words : BodyWords, tags : ArticleTags]

\* the dict blog_data of blog_creator; published_date is the one
\* datetime.now(timezone.utc).isoformat() of the call
ArticleData(a, published_date) ==
    [slug         |-> Truncate(slugify(Or(a.slug, a.title)), 255),
     title        |-> Truncate(a.title, 255),
     tags         |-> TagLiteral(a.tags),
     status       |-> "published",
     featured     |-> "false",
     read_time    |-> Str(calculate_read_time(a.words)),
     view_count   |-> <<"0">>,
     published_at |-> published_date,
     updated_at   |-> published_date,
     created_at   |-> published_date]

\* mutant: any non-empty text counts as true
Featured_Truthy(cell) == cell # ""

\* blog_data['featured'] == 'true'
Featured(cell) == cell = "true"

\* the dict blog_post that blog_inserter builds from the row it read
BlogPost(row) ==
    [slug         |-> row.slug,
     title        |-> row.title,
     tags         |-> ParseTags(row.tags),
     status       |-> row.status,
     featured     |-> Featured(row.featured),
     read_time    |-> ParseInt(row.read_time),
     view_count   |-> ParseInt(row.view_count),
     published_at |-> row.published_at,
     updated_at   |-> row.updated_at,
     created_at   |-> row.created_at]

\* blog_creator(...) writes the row; the tags cell is the one that needs
\* quoting in the file
StageArticle(a, published_date) ==
    /\ art_pc = "idle"
    /\ article' = a
    /\ csv_row' = [ArticleData(a, published_date) EXCEPT !.tags = CsvWrite(@)]
    /\ art_pc' = "staged"
    /\ UNCHANGED <<posts, commit_result>>
    /\ UNCHANGED <<orchVars, pipeVars, execVars, startVars, imgVars, commitVars,
                   readVars, recVars, tagVars>>

\* blog_inserter(csv_file_path) on a store without the slug, the insert
\* confirmed
CommitArticle ==
    /\ art_pc = "staged"
    /\ LET row_read == [csv_row EXCEPT !.tags = CsvRead(@)]
       IN  /\ ~AlreadyExists(SelectBySlug(posts, row_read.slug))
           /\ posts' = Append(posts, BlogPost(row_read))
           /\ commit_result' = Envelope("blog_inserter", "success", "inserted",
                                        BlogUrl(row_read.slug))
    /\ art_pc' = "committed"
    /\ UNCHANGED <<article, csv_row>>
    /\ UNCHANGED <<orchVars, pipeVars, execVars, startVars, imgVars, commitVars,
                   readVars, recVars, tagVars>>

NextArticle ==
    \/ /\ art_pc = "idle"
       /\ \E a \in Articles, published_date \in Seconds : StageArticle(a, published_date)
    \/ CommitArticle

InitArticle == Rest /\ PureInit

SpecArticle == InitArticle /\ [][NextArticle]_vars

----------------------------------------------------------------------------
(* optimize_image_for_blog() and image_generator()                         *)
(* (tools/image_tools.py and seobot_ai.py)                                 *)

MaxSide == 9

Sides == 1..MaxSide

\* the sizes an image is generated in, and the default target size
GeneratedSizes == {<<1024, 768>>, <<1408, 768>>, <<1920, 1080>>}

DefaultTarget == <<1920, 1080>>

\* local_filename of image_generator, as (base, ext) of os.path.splitext
LocalFilename == <<"blog_header", ".jpg">>

\* optimized_path = f"{base}_optimized{ext}"
OptimizedPath(image_path) == <<image_path[1], "_optimized", image_path[2]>>

\* int(t * (w / h)), the ratio and the product IEEE doubles: for every
\* t, w, h the model draws the product is the exact floor
MulByRatio(t, w, h) == (t * w) \div h

\* the (t, w, h) up to 12 for which the double t / (w / h) lies below the
\* exact quotient t * h / w, an integer: 9 / (9 / 7) = 6.999999999999999
RoundsBelow == {<<9, 9, 7>>}

\* int(t / (w / h)), the ratio and the quotient IEEE doubles
DivByRatio(t, w, h) ==
    IF <<t, w, h>> \in RoundsBelow
    THEN ((t * h) \div w) - 1
    ELSE (t * h) \div w

\* original_ratio > target_ratio
Wider(size, tsize) == size[1] * tsize[2] > tsize[1] * size[2]

Abs(n) == IF n < 0 THEN -n ELSE n

\* abs(original_ratio - target_ratio) > 0.01
RatiosDiffer(size, tsize) ==
    100 * Abs(size[1] * tsize[2] - tsize[1] * size[2]) > size[2] * tsize[2]

Min(a, b) == IF a <= b THEN a ELSE b

\* mutant: img.crop keeps only the part of the box that lies inside the image
Crop_Clipped(size, box) ==
    <<Max(0, Min(box[3], size[1]) - Max(box[1], 0)),
      Max(0, Min(box[4], size[2]) - Max(box[2], 0))>>

\* size of img.crop(box): the size of the box, wherever it lies
Crop(size, box) == <<box[3] - box[1], box[4] - box[2]>>

\* size of img.resize(new_size)
Resize(size, new_size) == new_size

FullBox(size) == <<0, 0, size[1], size[2]>>

Empty(size) == size[1] = 0 \/ size[2] = 0

\* mutant: the odd pixel is trimmed from the leading edge
CentreOffset_Ceil(have, want) == (have - want) - ((have - want) \div 2)

\* `(new_width - target_width) // 2`: where a crop from the centre starts
CentreOffset(have, want) == (have - want) \div 2

\* image_tools.py: resize to cover the target, then crop from the centre
ToolsSteps(size, tsize) ==
    LET w == size[1]
        h == size[2]
        target_width == tsize[1]
        target_height == tsize[2]
    IN  IF Wider(size, tsize)
        THEN LET new_height == target_height
                 new_width == MulByRatio(target_height, w, h)
                 left == CentreOffset(new_width, target_width)
                 box == <<left, 0, left + target_width, target_height>>
             IN  [scaled |-> Resize(size, <<new_width, new_height>>),
                  crop_box |-> box,
                  cropped |-> Crop(<<new_width, new_height>>, box),
                  output |-> Crop(<<new_width, new_height>>, box)]
        ELSE LET new_width == target_width
                 new_height == DivByRatio(target_width, w, h)
                 top == CentreOffset(new_height, target_height)
                 box == <<0, top, target_width, top + target_height>>
             IN  [scaled |-> Resize(size, <<new_width, new_height>>),
                  crop_box |-> box,
                  cropped |-> Crop(<<new_width, new_height>>, box),
                  output |-> Crop(<<new_width, new_height>>, box)]

\* seobot_ai.py: crop to the target ratio if the ratios differ, then resize
ScriptSteps(size, tsize) ==
    LET w == size[1]
        h == size[2]
        box == IF ~RatiosDiffer(size, tsize) THEN FullBox(size)
               ELSE IF Wider(size, tsize)
               THEN LET new_width == MulByRatio(h, tsize[1], tsize[2])
                        left == CentreOffset(w, new_width)
                    IN  <<left, 0, left + new_width, h>>
               ELSE LET new_height == DivByRatio(w, tsize[1], tsize[2])
                        top == CentreOffset(h, new_height)
                    IN  <<0, top, w, top + new_height>>
        cropped == IF RatiosDiffer(size, tsize) THEN Crop(size, box) ELSE size
    IN  [scaled |-> Resize(cropped, tsize),
         crop_box |-> box,
         cropped |-> cropped,
         output |-> Resize(cropped, tsize)]

Steps(which, size, tsize) ==
    IF which = "tools" THEN ToolsSteps(size, tsize) ELSE ScriptSteps(size, tsize)

\* the steps of optimize_image_for_blog that can raise, and what they raise
Faults == {"none", "open", "resize", "save"}

Raised(fault) ==
    CASE fault = "open" -> "OSError"
      [] fault = "resize" -> "ValueError"
      [] fault = "save" -> "OSError"

\* `except Exception as e` of optimize_image_for_blog
OptimizeCatches(class) == class \in ExceptionClasses

\* optimize_image_for_blog(image_path, target_width, target_height) on a file
\* of the given size. `fault` is the step the environment makes raise;
\* resizing an image that was cropped to no pixels raises if empty_raises
optimize_image_for_blog(which, image_path, size, tsize, fault, empty_raises) ==
    LET s == Steps(which, size, tsize)
        raises == IF fault # "none" THEN fault
                  ELSE IF Empty(s.cropped) /\ empty_raises THEN "resize"
                  ELSE "none"
    IN  IF raises = "none"
        THEN [path |-> OptimizedPath(image_path), fault |-> "none",
              scaled |-> s.scaled, crop_box |-> s.crop_box,
              output |-> s.output, saved |-> {OptimizedPath(image_path)},
              escaped |-> FALSE]
        ELSE [path |-> image_path, fault |-> raises,
              scaled |-> <<>>, crop_box |-> <<>>,
              output |-> <<>>, saved |-> {},
              escaped |-> ~OptimizeCatches(Raised(raises))]

\* a direct call of optimize_image_for_blog on an existing file
OptimizeImage(which, size, tsize, fault, empty_raises) ==
    /\ img_pc = "idle"
    /\ LET r == optimize_image_for_blog(which, LocalFilename, size, tsize,
                                        fault, empty_raises)
       IN  /\ img_fault' = r.fault
           /\ scaled' = r.scaled
           /\ crop_box' = r.crop_box
           /\ output' = r.output
           /\ opt_path' = r.path
           /\ img_raised' = r.escaped
           /\ disk' = {LocalFilename} \cup r.saved
    /\ img_pc' = "optimized"
    /\ img_impl' = which
    /\ image' = size
    /\ target' = tsize
    /\ UNCHANGED gen_result
    /\ UNCHANGED <<orchVars, pipeVars, execVars, startVars, commitVars, readVars, recVars, tagVars,
                   artVars>>

ImageResult(status, message, local_path, dimensions) ==
    [status |-> status, message |-> message, local_path |-> local_path,
     dimensions |-> dimensions]

\* mutant: image_generator removes the original whatever path came back
KeepsOptimized_Always(optimized_path, local_filename) == TRUE

\* `if optimized_path != local_filename:` of image_generator
KeepsOptimized(optimized_path, local_filename) == optimized_path # local_filename

\* image_generator(prompt): key is Config.GEMINI_API_KEY being set, api what
\* generate_images and the first save do, remove_raises what os.remove does
image_generator(which, key, api, size, fault, empty_raises, remove_raises) ==
    /\ img_pc = "idle"
    /\ img_pc' = "generated"
    /\ img_impl' = which
    /\ IF ~key \/ api # "image"
       THEN /\ gen_result' =
                  ImageResult("error",
                              IF ~key THEN "GEMINI_API_KEY not configured"
                              ELSE IF api = "no_images" THEN "No images generated"
                              ELSE "Failed to generate image",
                              <<>>, "none")
            /\ UNCHANGED <<image, target, img_fault, scaled, crop_box, output,
                           opt_path, img_raised, disk>>
       ELSE LET local_filename == LocalFilename
                r == optimize_image_for_blog(which, local_filename, size,
                                             DefaultTarget, fault, empty_raises)
                replaced == KeepsOptimized(r.path, local_filename) /\ ~remove_raises
            IN  /\ image' = size
                /\ target' = DefaultTarget
                /\ img_fault' = r.fault
                /\ scaled' = r.scaled
                /\ crop_box' = r.crop_box
                /\ output' = r.output
                /\ opt_path' = r.path
                /\ img_raised' = r.escaped
                /\ disk' = IF replaced
                           THEN ({local_filename} \cup r.saved) \ {local_filename}
                           ELSE {local_filename} \cup r.saved
                /\ gen_result' =
                     IF r.escaped
                     THEN ImageResult("success", "optimization skipped",
                                      local_filename, "1024x768 (16:9)")
                     ELSE IF ~KeepsOptimized(r.path, local_filename)
                     THEN ImageResult("success", "generated",
                                      local_filename, "1024x768 (16:9)")
                     ELSE IF remove_raises
                     THEN ImageResult("success", "optimization skipped",
                                      local_filename, "1024x768 (16:9)")
                     ELSE ImageResult("success", "generated and optimized",
                                      r.path, "1920x1080")
    /\ UNCHANGED <<orchVars, pipeVars, execVars, startVars, commitVars, readVars, recVars, tagVars,
                   artVars>>

NextImage ==
    \/ /\ img_pc = "idle"
       /\ \E which \in {"tools", "script"}, w \in Sides, h \in Sides,
             tw \in Sides, th \in Sides, fault \in Faults, empty_raises \in BOOLEAN :
             OptimizeImage(which, <<w, h>>, <<tw, th>>, fault, empty_raises)
    \/ /\ img_pc = "idle"
       /\ \E which \in {"tools", "script"}, key \in BOOLEAN,
             api \in {"image", "no_images", "raises"}, size \in GeneratedSizes,
             fault \in Faults, remove_raises \in BOOLEAN :
             image_generator(which, key, api, size, fault, FALSE, remove_raises)

InitImage == Rest /\ PureInit

SpecImage == InitImage /\ [][NextImage]_vars

----------------------------------------------------------------------------
(* One blog_inserter() call, of tools/blog_tools.py or of seobot_ai.py, on *)
(* any staging file, table and store replies                               *)

\* the row blog_creator stages for the article of the example
GoodRow ==
    ArticleData([title |-> FiveTips, slug |-> five_tips, words |-> 200,
                 tags |-> << <<"a">>, <<"b">> >>], 0)

\* a row whose column `col` is missing
Without(row, col) == [c \in (DOMAIN row) \ {col} |-> row[c]]

\* the rows next(reader) may return: the staged row, or one that lacks a
\* column or holds a read_time or view_count that is no integer
StagedRows ==
    { GoodRow,
      Without(GoodRow, "slug"), Without(GoodRow, "title"), Without(GoodRow, "tags"),
      [GoodRow EXCEPT !.read_time = <<"x">>],
      [GoodRow EXCEPT !.read_time = <<>>],
      [GoodRow EXCEPT !.view_count = <<"1", ".", "5">>] }

\* what is at csv_file_path: nothing, a file that cannot be opened, a file
\* without a data row, or a file with one row
StagedFiles ==
    { [kind |-> "missing", rows |-> <<>>],
      [kind |-> "unreadable", rows |-> <<>>],
      [kind |-> "file", rows |-> <<>>] }
    \cup { [kind |-> "file", rows |-> <<row>>] : row \in StagedRows }

\* the table blog_posts before the call: empty, a row with another slug, a
\* row with the slug of the staged row
Tables == { <<>>, <<PriorRow(OtherSlug)>>, <<PriorRow(five_tips)>> }

\* what a call may find.  select and insert are what .execute() does:
\* return data, return no data (insert), or raise; stored tells whether an
\* insert that was not confirmed left its row in the table
CommitEnvs ==
    [configured : BOOLEAN, staged : StagedFiles, table : Tables,
     select : {"data", "raise"}, insert : {"data", "nodata", "raise"},
     stored : BOOLEAN]

\* int(text) returns
IsInt(text) ==
    /\ text # <<>>
    /\ \A k \in 1..Len(text) : \E d \in 1..Len(Digits) : Digits[d] = text[k]

\* the exception that parsing the tags and building blog_post raises for
\* the row, "none" if it raises none
BuildRaises(row) ==
    IF (DOMAIN GoodRow) \ (DOMAIN row) # {} THEN "KeyError"
    ELSE IF ~IsInt(row.read_time) \/ ~IsInt(row.view_count) THEN "ValueError"
    ELSE "none"

\* mutant: blog_inserter of blog_tools.py catches the missing file only
InserterClauses_ToolsNotFound(which) ==
    IF which = "tools" THEN <<"FileNotFoundError">>
    ELSE <<"Exception">>

\* mutant: blog_inserter has no `except Exception` clause
InserterClauses_OnlyNotFound(which) == <<"FileNotFoundError">>

\* the except clauses of the try statement of blog_inserter, in order
InserterClauses(which) ==
    IF which = "tools" THEN <<"FileNotFoundError", "Exception">>
    ELSE <<"Exception">>

\* the first except clause that matches an exception of class cls, "none"
\* if the exception leaves blog_inserter
InserterHandler(which, cls) ==
    LET clauses == InserterClauses(which)
        hits == { k \in 1..Len(clauses) : Matches(cls, clauses[k]) }
    IN  IF hits = {} THEN "none"
        ELSE clauses[CHOOSE k \in hits : \A j \in hits : k <= j]

NotFoundMessage == "CSV file not found: "

GenericMessage == "Error inserting blog: "

\* the envelope the handler of an exception of class cls returns; status
\* "raised" stands for the exception leaving the call
Failed(which, cls) ==
    CASE InserterHandler(which, cls) = "FileNotFoundError" ->
            Envelope("blog_inserter", "error", NotFoundMessage, <<>>)
      [] InserterHandler(which, cls) = "Exception" ->
            Envelope("blog_inserter", "error", GenericMessage, cls)
      [] OTHER ->
            Envelope("blog_inserter", "raised", cls, <<>>)

Outcome(result, requests, n, rows) ==
    [result |-> result, calls |-> requests, opens |-> n, table |-> rows]

\* mutant: the insert is sent before the table is asked for the slug
CallsUpToInsert_InsertFirst == <<"insert", "select">>

\* the requests a call that reaches its insert has sent
CallsUpToInsert == <<"select", "insert">>

\* blog_inserter(csv_file_path) of implementation `which` in environment env
blog_inserter(which, env) ==
    IF which = "tools" /\ ~env.configured
    THEN Outcome(Envelope("blog_inserter", "warning",
                          "Supabase not configured - blog saved locally only", <<>>),
                 <<>>, 0, env.table)
    ELSE IF env.staged.kind = "missing"
    THEN Outcome(Failed(which, "FileNotFoundError"), <<>>, 1, env.table)
    ELSE IF env.staged.kind = "unreadable"
    THEN Outcome(Failed(which, "PermissionError"), <<>>, 1, env.table)
    ELSE IF env.staged.rows = <<>>
    THEN Outcome(Failed(which, "StopIteration"), <<>>, 1, env.table)
    ELSE LET row == env.staged.rows[1]
         IN  IF "slug" \notin DOMAIN row
             THEN Outcome(Failed(which, "KeyError"), <<>>, 1, env.table)
             ELSE IF env.select = "raise"
             THEN Outcome(Failed(which, "APIError"), <<"select">>, 1, env.table)
             ELSE IF AlreadyExists(SelectBySlug(env.table, row.slug))
             THEN Outcome(Envelope("blog_inserter", "error", "already exists", row.slug),
                          <<"select">>, 1, env.table)
             ELSE IF BuildRaises(row) # "none"
             THEN Outcome(Failed(which, BuildRaises(row)), <<"select">>, 1, env.table)
             ELSE LET kept == env.insert = "data" \/ env.stored
                      rows == IF kept THEN Append(env.table, BlogPost(row))
                              ELSE env.table
                  IN  CASE env.insert = "data" ->
                             Outcome(Envelope("blog_inserter", "success",
                                              "Blog inserted successfully",
                                              BlogUrl(row.slug)),
                                     CallsUpToInsert, 1, rows)
                        [] env.insert = "nodata" ->
                             Outcome(Envelope("blog_inserter", "error",
                                              "Failed to insert blog: No data returned",
                                              <<>>),
                                     CallsUpToInsert, 1, rows)
                        [] env.insert = "raise" ->
                             Outcome(Failed(which, "APIError"), CallsUpToInsert, 1, rows)

\* one call of blog_inserter; the file is opened with mode 'r' and nothing
\* in the call writes to it or removes it
CommitCall(which, env) ==
    /\ commit_pc = "idle"
    /\ commit_pc' = "returned"
    /\ commit_impl' = which
    /\ commit_env' = env
    /\ LET out == blog_inserter(which, env)
       IN  /\ inserter_result' = out.result
           /\ store_calls' = out.calls
           /\ opens' = out.opens
           /\ table_after' = out.table
    /\ staged_after' = env.staged
    /\ UNCHANGED <<orchVars, pipeVars, execVars, startVars, imgVars, readVars, recVars,
                   tagVars, artVars>>

\* the script refuses to start without SUPABASE_URL and SUPABASE_SERVICE_KEY
NextCommit ==
    /\ commit_pc = "idle"
    /\ \E which \in {"tools", "script"}, env \in CommitEnvs :
          /\ which = "script" => env.configured
          /\ CommitCall(which, env)

InitCommit == Rest /\ PureInit

SpecCommit == InitCommit /\ [][NextCommit]_vars

----------------------------------------------------------------------------
(* The specification of the conversation loop                              *)

\* main() starts; no publisher of the pipeline model is running
Init == OrchInit /\ NoPublisher /\ ExecInit /\ PureInit

Next ==
    \/ WhileEnter
    \/ ModelCall
    \/ WhileExit
    \/ ForText
    \/ ForOther
    \/ ForToolUse
    \/ ForToolUseRaises
    \/ StepContinue
    \/ StepBreak
    \/ Finish

Spec == Init /\ [][Next]_vars

----------------------------------------------------------------------------
(* The start of the program: the module level of seobot_ai.py, and         *)
(* Config.validate() of config.py called before anything else              *)

\* mutant: only the key of the reasoning model is required
ScriptMissing_OnlyAnthropic(env) == "ANTHROPIC_API_KEY" \notin env

\* `not all([ANTHROPIC_API_KEY, SUPABASE_URL, SUPABASE_SERVICE_KEY])`
ScriptMissing(env) == Credentials \ env # {}

SupabaseKeys == {"SUPABASE_URL", "SUPABASE_SERVICE_KEY"}

\* the list `missing` of Config.validate
ValidateMissing(env) ==
    (IF "ANTHROPIC_API_KEY" \notin env THEN {"ANTHROPIC_API_KEY"} ELSE {})
    \cup (IF SupabaseKeys \cap env # {} /\ ~(SupabaseKeys \subseteq env)
          THEN {"Incomplete Supabase configuration"} ELSE {})

\* the module level of seobot_ai.py runs: the ValueError ends the process
\* before main() is defined, otherwise the last line calls main()
ScriptLoad ==
    /\ start_pc = "load"
    /\ entry = "script"
    /\ IF ScriptMissing(environ)
       THEN start_pc' = "raised" /\ startup_error' = "ValueError"
       ELSE start_pc' = "running" /\ startup_error' = "none"
    /\ UNCHANGED <<entry, environ>>
    /\ UNCHANGED <<orchVars, pipeVars, execVars, readVars, recVars, tagVars, artVars,
                   imgVars, commitVars>>

\* the package is started: Config.validate() is called first, and its
\* ValueError ends the start
PackageStart ==
    /\ start_pc = "load"
    /\ entry = "package"
    /\ IF ValidateMissing(environ) # {}
       THEN start_pc' = "raised" /\ startup_error' = "ValueError"
       ELSE start_pc' = "running" /\ startup_error' = "none"
    /\ UNCHANGED <<entry, environ>>
    /\ UNCHANGED <<orchVars, pipeVars, execVars, readVars, recVars, tagVars, artVars,
                   imgVars, commitVars>>

\* nothing has run yet; any of the credentials may be missing
InitStart ==
    /\ OrchInit
    /\ NoPublisher
    /\ ExecInit
    /\ PureIdle
    /\ start_pc = "load"
    /\ entry \in {"script", "package"}
    /\ environ \in SUBSET Credentials
    /\ startup_error = "none"

\* main() of the script runs once its module level has been passed
NextStart ==
    \/ ScriptLoad
    \/ PackageStart
    \/ /\ start_pc = "running"
       /\ entry = "script"
       /\ Next

SpecStart == InitStart /\ [][NextStart]_vars

----------------------------------------------------------------------------
(* Outcome of a run, read off the way the loop was left                    *)

Ended == pc \in {"end", "done"}

\* the loop was left and `if blog_inserted:` prints the success message
PUBLISHED == Ended /\ exit_via \in {"while", "break"} /\ blog_inserted

\* the loop test failed on the ceiling with nothing published
EXHAUSTED == Ended /\ exit_via = "while" /\ iteration >= max_iterations /\ ~blog_inserted

\* the loop was left by `break`
IDLE == Ended /\ exit_via = "break"

\* main() was left through `except Exception`
FAILED == Ended /\ exit_via = "except"

\* the conversation loop over tools whose store is not configured: every
\* blog_inserter call that returns, returns status warning
InitWarn ==
    /\ OrchInit
    /\ InitPipe({})
    /\ ~configured
    /\ store = <<>>
    /\ ExecInit
    /\ PureInit

SpecWarn == InitWarn /\ [][Next]_vars

\* the sequential control flow of main() always takes its next step: every
\* call it makes is blocking and returns
FairSpec == Spec /\ WF_vars(Next)

----------------------------------------------------------------------------
(* Claims about the conversation loop                                      *)

C1_Inv ==
    /\ model_calls <= max_iterations
    /\ (Ended /\ ~terminal_invoked) => ~PUBLISHED
    /\ EXHAUSTED => model_calls = max_iterations
    /\ (Ended /\ ~terminal_invoked /\ ~IDLE /\ ~FAILED)
          => (EXHAUSTED /\ model_calls = max_iterations)

\* C1 (amended): with a collaborator that never invokes blog_inserter the run
\* always ends, makes at most max_iterations model calls and is never
\* PUBLISHED; it ends EXHAUSTED only after exactly max_iterations model calls,
\* and it does so whenever it was not ended earlier by a response without
\* tool invocations (IDLE) or by the exception path.
C1_TerminatesWithinCeiling == [](C1_Inv) /\ <>Ended

\* C1 witness: a run without any blog_inserter invocation that ended EXHAUSTED
C1_Witness == EXHAUSTED /\ ~terminal_invoked /\ model_calls = max_iterations /\ pc = "done"

\* C1 as stated: every normally ended run without a blog_inserter invocation
\* is EXHAUSTED after exactly max_iterations model calls
C1_Original ==
    (Ended /\ ~terminal_invoked /\ ~FAILED)
        => (EXHAUSTED /\ model_calls = max_iterations)

\* C2: as long as every tool call returns an envelope, a run makes at most
\* max_iterations model calls, the iteration counter never exceeds the
\* ceiling, an ended run is in exactly one of PUBLISHED, EXHAUSTED, IDLE, and a
\* blog_inserter success in step max_iterations ends the run PUBLISHED.
C2_BoundedOutcome ==
    /\ model_calls <= max_iterations
    /\ iteration <= max_iterations
    /\ iteration = model_calls
    /\ (Ended /\ ~FAILED) =>
          /\ PUBLISHED \/ EXHAUSTED \/ IDLE
          /\ ~(PUBLISHED /\ EXHAUSTED)
          /\ ~(PUBLISHED /\ IDLE)
          /\ ~(EXHAUSTED /\ IDLE)
    /\ (Ended /\ ~FAILED /\ success_step = max_iterations)
          => (PUBLISHED /\ ~EXHAUSTED)

\* C2 witness: blog_inserter succeeded in the last allowed step
C2_Witness == pc = "done" /\ success_step = max_iterations /\ PUBLISHED

\* C3 as stated: an ended run is PUBLISHED if and only if some blog_inserter
\* invocation of the run returned status success
C3_Original == Ended => (PUBLISHED <=> inserter_ok)

\* C4: once a blog_inserter invocation has succeeded, no model call is made
\* any more and the step counter stays at the step of that success, so every
\* later tool invocation belongs to that same step.
C4_FirstSuccessWins ==
    [][(success_step # 0) =>
         /\ model_calls' = model_calls
         /\ iteration' = success_step
         /\ success_step' = success_step]_vars

\* C4 witness: a run published before the ceiling and finished
C4_Witness ==
    /\ pc = "done"
    /\ success_step # 0
    /\ success_step < max_iterations
    /\ model_calls = success_step

\* C5: a response without tool invocations makes the loop break in that same
\* step, whatever the iteration counter; after the break no model call is
\* made, and the run is not published.
C5_NoToolUseIsIdle ==
    /\ [](IDLE => (~blog_inserted /\ ~PUBLISHED /\ NumToolUse(response) = 0))
    /\ [][(pc = "for" /\ i > Len(response) /\ NumToolUse(response) = 0)
            => (pc' = "end" /\ exit_via' = "break" /\ model_calls' = model_calls)]_vars
    /\ [][(exit_via = "break")
            => (exit_via' = "break" /\ model_calls' = model_calls /\ pc' # "while")]_vars

\* C5 witness: a text-only response in the last allowed step ended the run IDLE
C5_Witness ==
    /\ pc = "done"
    /\ IDLE
    /\ iteration = max_iterations
    /\ Len(response) > 0
    /\ NumToolUse(response) = 0

\* C10 as stated: main() is never left through an exception of a tool
\* invocation; every run ends PUBLISHED, EXHAUSTED or IDLE
C10_Original == ~FAILED /\ (Ended => (PUBLISHED \/ EXHAUSTED \/ IDLE))

----------------------------------------------------------------------------
(* Claims about staging and commit                                         *)

AllSlugs == Slugs \cup {OtherSlug}

InserterReturned == returned.tool = "blog_inserter" /\ trace.run # ""

\* C6: with one publisher, a commit of a staged artifact that an earlier
\* commit already published returns status error "already exists" and issues
\* no insert; a confirmed insert is reported as success; the store holds
\* exactly one row with the slug of a successfully committed artifact, and no
\* slug is ever committed successfully twice.
C6_IdempotentCommit ==
    /\ (InserterReturned /\ trace.prior /\ trace.select # "raise")
          => /\ returned.status = "error"
             /\ returned.message = "exists"
             /\ trace.select = "found"
             /\ trace.insert = "none"
    /\ (InserterReturned /\ trace.insert = "data") => returned.status = "success"
    /\ (InserterReturned /\ returned.status = "success") => trace.insert = "data"
    /\ \A q \in Paths :
          done[q] # NoRow => /\ CountSlug(store, done[q].slug) = 1
                             /\ succ[DerivedSlug(q)] = 1

\* C6 witness: the second commit of the same artifact was rejected after the
\* first one succeeded, and the store holds one row with its slug
C6_Witness ==
    /\ InserterReturned
    /\ commits = 2
    /\ trace.prior
    /\ done[trace.path] = trace.data
    /\ returned.status = "error"
    /\ returned.message = "exists"
    /\ CountSlug(store, trace.data.slug) = 1
    /\ Len(store) = 1

\* C7 (amended): among the staged artifacts that share a derived slug at
\* most one ever commits successfully and the store never holds two rows with
\* the same slug, as long as no commit of that slug was overlapped by another
\* publisher's insert; with a single publisher no commit is ever overlapped.
C7_SlugUniqueWithoutOverlap ==
    /\ \A sl \in Slugs :
          sl \notin raced => (succ[sl] <= 1 /\ CountSlug(store, sl) <= 1)
    /\ CountSlug(store, OtherSlug) <= 1
    /\ \A k \in 1..Len(store) : store[k].slug \in AllSlugs
    /\ Cardinality(runs) = 1 => raced = {}

\* C7 witness: two different artifacts staged under the same derived slug,
\* the first committed, the commit of the second rejected
C7_Witness ==
    /\ InserterReturned
    /\ \E q \in Paths :
          /\ q # trace.path
          /\ DerivedSlug(q) = DerivedSlug(trace.path)
          /\ done[q] # NoRow
          /\ done[q] # trace.data
          /\ q \in DOMAIN files
          /\ trace.path \in DOMAIN files
    /\ trace.data.kind = "row"
    /\ returned.status = "error"
    /\ returned.message = "exists"
    /\ succ[DerivedSlug(trace.path)] = 1

\* C7 as stated: for every derived slug at most one commit ever succeeds and
\* the store never holds two rows with the same slug
C7_Original ==
    \A sl \in Slugs : succ[sl] <= 1 /\ CountSlug(store, sl) <= 1

\* C8: the check and the insert are separate store calls.  A publisher that
\* passed the check is about to insert although the store may meanwhile hold
\* its slug, which only the insert of another publisher can cause; if its
\* insert is confirmed it reports success and the store holds two rows with
\* the slug.  With a single publisher no commit is overlapped.
C8_CheckThenInsertRace ==
    /\ \A r \in Runs :
          ipc[r] = "insert" =>
             (CountSlug(store, blog_data[r].slug) = 0 \/ flags[r].overlapped)
    /\ \A r \in Runs :
          flags[r].overlapped => (ipc[r] = "insert" /\ Cardinality(runs) = 2)
    /\ (InserterReturned /\ trace.overlapped /\ trace.insert = "data")
          => /\ returned.status = "success"
             /\ CountSlug(store, trace.data.slug) >= 2

\* C8 witness: both publishers passed the check before either insert, both
\* reported success, and the store holds two rows with the slug
C8_Witness ==
    /\ InserterReturned
    /\ trace.overlapped
    /\ returned.status = "success"
    /\ succ[DerivedSlug(trace.path)] = 2
    /\ CountSlug(store, trace.data.slug) = 2

----------------------------------------------------------------------------
(* Claims about the tool executor                                          *)

\* the named arguments of the last call do not fit the signature of its tool
ShapeMismatch ==
    \/ ToolsRequired(tool_name) \ tool_input # {}
    \/ tool_input \ (ToolsRequired(tool_name) \cup ToolsOptional(tool_name)) # {}

\* C9: execute() never lets an exception out and every call returns an
\* envelope.  An unknown name gives status error naming the tool and runs no
\* tool; a missing or unexpected named argument gives status error "Invalid
\* parameters" and runs no tool body; an exception handled during the
\* execution of a tool gives status error carrying the text of the exception.
C9_ExecuteNeverRaises ==
    /\ ~escaped
    /\ calls > 0 =>
          /\ exec_result.status \in {"success", "warning", "error"}
          /\ tool_name \notin tools =>
                /\ exec_result = Env("error", "Unknown tool", tool_name)
                /\ entered = "none"
          /\ (tool_name \in tools /\ ShapeMismatch) =>
                /\ exec_result = Env("error", "Invalid parameters for tool", failure)
                /\ failure # "none"
                /\ entered = "none"
          /\ (tool_name \in tools /\ ~ShapeMismatch) => entered = tool_name
          /\ failure # "none" =>
                /\ exec_result.status = "error"
                /\ exec_result.detail = failure

\* C9 witness: one executor has answered an unknown name, a call with a wrong
\* argument shape and an exception that left a tool, the last of these being
\* converted by execute() itself
C9_Witness ==
    /\ {"unknown", "typeerror", "exception"} \subseteq branches
    /\ exec_result = Env("error", "Error executing tool", failure)
    /\ failure \in ExceptionTexts
    /\ entered = tool_name

----------------------------------------------------------------------------
(* Claims about the exit code                                              *)

\* C11 as stated: when main() has returned, a run that ended PUBLISHED
\* returned 0 and a run that ended EXHAUSTED or IDLE returned a non-zero code
C11_Original ==
    pc = "done" =>
       /\ PUBLISHED => ret = 0
       /\ (EXHAUSTED \/ IDLE) => ret # 0

----------------------------------------------------------------------------
(* Claims about staged artifacts                                           *)

\* C12 as stated: a blog_creator call that returns success has written to a
\* location at which no staged artifact existed, and every staged artifact
\* that existed before the call has the same content after it
C12_Original ==
    [][ (returned'.tool = "blog_creator" /\ returned'.status = "success")
           => /\ returned'.ref \notin DOMAIN files
              /\ \A q \in DOMAIN files : q \in DOMAIN files' /\ files'[q] = files[q]
      ]_vars

\* the second of the wall clock at which blog_creator staged the file
StagedAt(path) == path[2]

----------------------------------------------------------------------------
(* Claims about the read time                                              *)

\* C14: the read time is at least 1 and not smaller than the read time of
\* the content with one word less; it is 1 for 0, 100 and 199 words and 2
\* for 300, 400 and 500 words.
C14_ReadTime ==
    read_time # 0 =>
       /\ read_time >= 1
       /\ read_time >= last_read_time
       /\ word_count \in {0, 100, 199} => read_time = 1
       /\ word_count \in {300, 400, 500} => read_time = 2

\* C14 witness: the read time of 500 words, a tie of round(), is computed
\* after the read time of 499 words
C14_Witness ==
    /\ word_count = 500
    /\ read_time = 2
    /\ last_read_time = 2

----------------------------------------------------------------------------
(* Claims about the record blog_creator writes                             *)

\* text `t` is the first Len(t) characters of text `of`
IsPrefix(t, of) == Len(t) <= Len(of) /\ t = SubSeq(of, 1, Len(t))

\* column `t` holds the first `limit` characters of `of`, all of it if shorter
Limited(t, of, limit) ==
    /\ Len(t) <= limit
    /\ IsPrefix(t, of)
    /\ Len(t) = (IF Len(of) < limit THEN Len(of) ELSE limit)

\* C15 as stated: every record blog_creator writes keeps each text column
\* within its limit, the column being the prefix of that length of the value
\* it is taken from
C15_Original ==
    written # <<>> =>
       /\ Limited(written.slug, slugify(Or(creator_args.slug, creator_args.title)), 255)
       /\ Limited(written.title, creator_args.title, 255)
       /\ Limited(written.meta_title, Or(creator_args.meta_title, creator_args.title), 100)
       /\ Limited(written.meta_description,
                  Or(creator_args.meta_description, creator_args.excerpt), 255)
       /\ Limited(written.excerpt, creator_args.excerpt, 500)
       /\ Limited(written.featured_image, creator_args.featured_image, 500)
       /\ Limited(written.category, creator_args.category, 100)
       /\ Limited(written.author, creator_args.author, 100)

----------------------------------------------------------------------------
(* Claims about the tags column                                            *)

\* C17 as stated: the tag list blog_inserter parses from the staged cell
\* equals the list given to blog_creator, element for element and in order
C17_Original == tag_pc = "parsed" => tags_list = tags

----------------------------------------------------------------------------
(* Claims about a committed article                                        *)

\* C16: committing a staged article into a store without its slug leaves
\* exactly one record, with status published, featured false, view count 0
\* and equal published, created and updated times, and returns success with
\* the URL of the slug; for the article 'Five Tips' with slug 'five-tips', a
\* body of 200 words and the tags a, b the record has read time 1 and the
\* tags a, b, and the URL ends in /blog/five-tips.
C16_EndToEnd ==
    art_pc = "committed" =>
       /\ Len(posts) = 1
       /\ posts[1].status = "published"
       /\ posts[1].featured = FALSE
       /\ posts[1].view_count = 0
       /\ posts[1].published_at = posts[1].created_at
       /\ posts[1].published_at = posts[1].updated_at
       /\ commit_result.status = "success"
       /\ commit_result.ref = <<"https://replydaddy.com/blog/", posts[1].slug>>
       /\ posts[1].slug = five_tips
       /\ (article.words = 200 /\ article.tags = << <<"a">>, <<"b">> >>) =>
             /\ posts[1].read_time = 1
             /\ posts[1].tags = << <<"a">>, <<"b">> >>

\* C16 witness: the article of the example is committed
C16_Witness ==
    /\ art_pc = "committed"
    /\ article = [title |-> FiveTips, slug |-> five_tips, words |-> 200,
                  tags |-> << <<"a">>, <<"b">> >>]
    /\ Len(posts) = 1
    /\ posts[1].read_time = 1
    /\ commit_result.status = "success"

----------------------------------------------------------------------------
(* Claims about image normalisation                                        *)

\* optimize_image_for_blog ran to its return statement
Normalised ==
    /\ img_pc \in {"optimized", "generated"}
    /\ image # <<>>
    /\ img_fault = "none"

\* C18: whenever optimize_image_for_blog succeeds, on an image of any positive
\* size and for any positive target size, the image it saves is exactly
\* target_width x target_height pixels, whether the source was relatively
\* wider than the target or not, in both implementations.
C18_ExactTargetSize ==
    Normalised =>
        /\ output = target
        /\ opt_path = OptimizedPath(LocalFilename)
        /\ opt_path \in disk

\* a relatively wider source was scaled to the target height and lost columns
\* on both sides
C18_Witness ==
    /\ Normalised
    /\ img_impl = "tools"
    /\ Wider(image, target)
    /\ scaled[2] = target[2]
    /\ scaled[1] > target[1]
    /\ crop_box[1] > 0
    /\ output = target

\* C19: when the image already has the target width and height, the size it
\* is scaled to is the target size and the crop starts at offset zero on both
\* axes, so that no pixel is cropped.
C19_Original ==
    (Normalised /\ image = target) =>
        /\ scaled = target
        /\ crop_box[1] = 0
        /\ crop_box[2] = 0

\* C20: when a step of optimize_image_for_blog fails it returns the path it
\* was given and raises nothing; image_generator then leaves the original
\* file in place, removes it only when a different path came back, and
\* returns status success with a local_path that names an existing file.
C20_BestEffort ==
    /\ (img_pc \in {"optimized", "generated"} /\ img_fault # "none") =>
            /\ opt_path = LocalFilename
            /\ ~img_raised
            /\ LocalFilename \in disk
    /\ (img_pc = "generated" /\ image # <<>>) =>
            /\ gen_result.status = "success"
            /\ gen_result.local_path \in disk
            /\ (img_fault # "none" => gen_result.local_path = LocalFilename)
            /\ (LocalFilename \notin disk => opt_path # LocalFilename)

\* saving the optimized image failed inside image_generator
C20_Witness ==
    /\ img_pc = "generated"
    /\ img_fault = "save"
    /\ opt_path = LocalFilename
    /\ gen_result.status = "success"
    /\ gen_result.local_path = LocalFilename
    /\ disk = {LocalFilename}

----------------------------------------------------------------------------
(* Claims about the steps of the conversation loop                         *)

\* the indexes of the tool invocations of the response of this step
ToolUseIndexes == {k \in 1..Len(response) : IsToolUse(response[k])}

\* how often item k of the response was handed to handle_tool_call
Dispatches(k) == Cardinality({n \in 1..Len(dispatched) : dispatched[n] = k})

\* the for loop over response.content has been left
StepOver ==
    \/ pc = "for" /\ i > Len(response)
    \/ exit_via = "except"

\* C21: the loop never retries a tool call: every tool invocation of a
\* response is dispatched exactly once, nothing else is dispatched, and every
\* dispatch leaves its envelope, errors included, in the result list that
\* becomes the next user turn.
C21_Original ==
    /\ \A n \in 1..Len(dispatched) : dispatched[n] \in ToolUseIndexes
    /\ \A k \in ToolUseIndexes : Dispatches(k) <= 1
    /\ StepOver => \A k \in ToolUseIndexes : Dispatches(k) = 1
    /\ pc # "while" =>
          /\ Len(tool_results) = Len(dispatched)
          /\ \A n \in 1..Len(dispatched) :
                tool_results[n].tool_use_id = ToolUseId(iteration, dispatched[n])

\* the ids of the tool invocations of an appended assistant turn, in order
InvocationIds(turn) ==
    LET uses == SelectSeq(turn, LAMBDA item : item.type = "tool_use")
    IN  [k \in 1..Len(uses) |-> uses[k].id]

\* the ids the results of an appended user turn answer, in order
ResultIds(turn) == [k \in 1..Len(turn) |-> turn[k].tool_use_id]

\* C22: within a step the tool invocations are executed one at a time in the
\* order of the response: when an invocation is dispatched every earlier
\* invocation of the response has been dispatched and has its envelope in
\* the result list, and the result list, as gathered and as appended to the
\* conversation, holds the envelopes in the order of the invocations.
C22_InOrder ==
    /\ \A m, n \in 1..Len(dispatched) : m < n => dispatched[m] < dispatched[n]
    /\ pc = "for" =>
          /\ {dispatched[n] : n \in 1..Len(dispatched)} = {k \in ToolUseIndexes : k < i}
          /\ Len(tool_results) = Len(dispatched)
    /\ \A n \in 1..Len(tool_results) :
          /\ n <= Len(dispatched)
          /\ tool_results[n].tool_use_id = ToolUseId(iteration, dispatched[n])
    /\ Len(appended) = 2 => ResultIds(appended[2]) = InvocationIds(appended[1])

\* a step with two tool invocations has appended its two turns
C22_Witness ==
    /\ pc = "while"
    /\ Len(appended) = 2
    /\ Len(appended[2]) = 2
    /\ appended[2][1].tool_use_id = ToolUseId(iteration, 1)
    /\ appended[2][2].tool_use_id = ToolUseId(iteration, 2)

\* the roles of the conversation alternate, beginning with a user turn
Alternates ==
    \A k \in 1..Len(messages) :
        messages[k].role = IF k % 2 = 1 THEN "user" ELSE "assistant"

\* the turns a finished step appended are the last turns of the conversation,
\* and the user turn answers the invocations of the assistant turn one by
\* one, in their order and under their ids
AnswersInvocations ==
    Len(appended) = 2 =>
        /\ Len(messages) >= 3
        /\ messages[Len(messages) - 1].role = "assistant"
        /\ messages[Len(messages)].kind = "tool_results"
        /\ Len(appended[2]) = Len(InvocationIds(appended[1]))
        /\ \A k \in 1..Len(appended[2]) :
              appended[2][k].tool_use_id = InvocationIds(appended[1])[k]

\* C30: the conversation only grows (every step leaves the turns it had in
\* place), its roles alternate beginning with a user turn, every model call
\* is made on a conversation that ends with a user turn, and every user turn
\* of tool results holds one result per invocation of the assistant turn
\* before it, in the same order and with the same id.
C30_Conversation ==
    /\ [](Alternates /\ AnswersInvocations)
    /\ [][/\ Len(messages) <= Len(messages')
          /\ SubSeq(messages', 1, Len(messages)) = messages
          /\ model_calls' # model_calls => messages[Len(messages)].role = "user"]_vars

\* the third model call is made on a conversation of five turns whose last
\* turn answers two invocations
C30_Witness ==
    /\ pc = "while"
    /\ iteration = 2
    /\ Len(messages) = 5
    /\ messages[5].role = "user"
    /\ Len(appended) = 2
    /\ Len(appended[2]) = 2

----------------------------------------------------------------------------
(* Claims about one blog_inserter call                                     *)

\* the call got past the configuration check
CommitStarted ==
    /\ commit_pc = "returned"
    /\ commit_impl = "script" \/ commit_env.configured

\* the call read a row with a slug column from the staging file
ReadSlug ==
    /\ CommitStarted
    /\ commit_env.staged.kind = "file"
    /\ commit_env.staged.rows # <<>>
    /\ "slug" \in DOMAIN commit_env.staged.rows[1]

\* the select answered and the table holds a row with the staged slug
FoundInTable ==
    /\ ReadSlug
    /\ commit_env.select = "data"
    /\ \E k \in 1..Len(commit_env.table) :
          commit_env.table[k].slug = commit_env.staged.rows[1].slug

\* C23: when blog_inserter finds a row of the table with the slug of the
\* staged record it returns status error, already exists, having sent the
\* select only: no insert, the table and the staging file as they were; and
\* every call sends its select before its insert and at most one insert.
C23_ExistsMutatesNothing ==
    /\ FoundInTable =>
          /\ inserter_result.status = "error"
          /\ inserter_result.message = "already exists"
          /\ store_calls = <<"select">>
          /\ table_after = commit_env.table
          /\ staged_after = commit_env.staged
    /\ commit_pc = "returned" =>
          store_calls \in {<<>>, <<"select">>, <<"select", "insert">>}

\* the script's blog_inserter met the slug of a well-formed staged row
C23_Witness ==
    /\ FoundInTable
    /\ commit_impl = "script"
    /\ commit_env.staged.rows[1] = GoodRow
    /\ inserter_result.status = "error"
    /\ inserter_result.ref = five_tips
    /\ table_after = <<PriorRow(five_tips)>>

\* C24: a commit whose staging file does not exist returns status error
\* with a message that is not the message of a generic commit failure, and
\* sends neither a select nor an insert to the store.
C24_Original ==
    (CommitStarted /\ commit_env.staged.kind = "missing") =>
        /\ inserter_result.status = "error"
        /\ inserter_result.message # GenericMessage
        /\ store_calls = <<>>
        /\ table_after = commit_env.table

\* the insert was sent and the store answered it with the inserted row
InsertConfirmed ==
    /\ commit_pc = "returned"
    /\ Len(store_calls) = 2
    /\ commit_env.insert = "data"

\* the staged data the call read cannot be turned into a record: no data
\* row, a missing column, a read_time or view_count that is no integer
Malformed ==
    /\ CommitStarted
    /\ commit_env.staged.kind = "file"
    /\ \/ commit_env.staged.rows = <<>>
       \/ /\ commit_env.staged.rows # <<>>
          /\ \/ (DOMAIN GoodRow) \ (DOMAIN commit_env.staged.rows[1]) # {}
             \/ ~IsInt(commit_env.staged.rows[1].read_time)
             \/ ~IsInt(commit_env.staged.rows[1].view_count)

\* C25: a blog_inserter call that gets no insert confirmation (the insert
\* returns no data, the store or the file raises, the staged data is
\* malformed) returns status error; success is returned only for a confirmed
\* insert; and when no insert was sent the table is as it was.
C25_NoConfirmationIsError ==
    /\ (CommitStarted /\ ~InsertConfirmed) => inserter_result.status = "error"
    /\ Malformed => inserter_result.status = "error" /\ table_after = commit_env.table
    /\ (commit_pc = "returned" /\ inserter_result.status = "success") => InsertConfirmed
    /\ (commit_pc = "returned" /\ Len(store_calls) < 2) => table_after = commit_env.table

\* a staged row with a read_time that is no integer: the select found
\* nothing, the record could not be built, no insert was sent
C25_Witness ==
    /\ Malformed
    /\ commit_env.staged.rows # <<>>
    /\ "read_time" \in DOMAIN commit_env.staged.rows[1]
    /\ commit_env.staged.rows[1].read_time = <<"x">>
    /\ commit_env.table = <<>>
    /\ store_calls = <<"select">>
    /\ inserter_result.status = "error"
    /\ inserter_result.ref = "ValueError"
    /\ table_after = <<>>

----------------------------------------------------------------------------
(* Claims about the life of a staged file                                  *)

\* C26: a staged file, once blog_creator has written its row, is never
\* changed or removed again by any later call: blog_inserter only reads it.
C26_Original ==
    [][\A p \in DOMAIN files :
          files[p].kind = "row" => (p \in DOMAIN files' /\ files'[p] = files[p])]_vars

----------------------------------------------------------------------------
(* Claims about the start of the program                                   *)

\* a credential the entry point requires is missing
CredentialMissing ==
    \/ "ANTHROPIC_API_KEY" \notin environ
    \/ entry = "script" /\ ~(SupabaseKeys \subseteq environ)
    \/ entry = "package" /\ Cardinality(SupabaseKeys \cap environ) = 1

\* no model call has been made and no tool has been invoked
NothingOrchestrated ==
    /\ pc = "while"
    /\ iteration = 0
    /\ model_calls = 0
    /\ Len(messages) = 1
    /\ dispatched = <<>>
    /\ tool_results = <<>>
    /\ ~terminal_invoked

----------------------------------------------------------------------------
(* Claims about the crop box of optimize_image_for_blog                    *)

\* the image img.crop is applied to: the scaled image in image_tools.py, the
\* source in seobot_ai.py
CropSource == IF img_impl = "tools" THEN scaled ELSE image

\* the axis that loses pixels, 1 for columns and 2 for rows
CroppedAxis == IF Wider(image, target) THEN 1 ELSE 2

Leading(axis) == crop_box[axis]

Trailing(axis) == CropSource[axis] - crop_box[axis + 2]

Excess(axis) == CropSource[axis] - (crop_box[axis + 2] - crop_box[axis])

\* C28: the crop is centred: on the cropped axis the leading margin is
\* floor((scaled - target) / 2) and the trailing margin is the rest of
\* scaled - target, so the margins differ by at most one pixel and the odd
\* pixel goes to the trailing edge; the other axis is not cropped.
C28_Centred ==
    Normalised =>
        /\ Leading(CroppedAxis) = Excess(CroppedAxis) \div 2
        /\ Trailing(CroppedAxis) = Excess(CroppedAxis) - Leading(CroppedAxis)
        /\ Trailing(CroppedAxis) - Leading(CroppedAxis) \in {0, 1}
        /\ Leading(3 - CroppedAxis) = 0
        /\ Trailing(3 - CroppedAxis) = 0
        /\ img_impl = "tools" =>
                /\ Excess(CroppedAxis) = scaled[CroppedAxis] - target[CroppedAxis]
                /\ scaled[3 - CroppedAxis] = target[3 - CroppedAxis]

\* image_tools.py trimmed an odd number of columns, one more at the
\* trailing edge
C28_Witness ==
    /\ Normalised
    /\ img_impl = "tools"
    /\ Wider(image, target)
    /\ Leading(1) > 0
    /\ Trailing(1) = Leading(1) + 1

\* C29: in optimize_image_for_blog of image_tools.py the crop box lies inside
\* the scaled image: the scaled width is at least the target width in the
\* wider branch, the scaled height at least the target height in the other
\* branch, and the offset of the crop is never negative.
C29_Original ==
    (Normalised /\ img_impl = "tools") =>
        /\ scaled[CroppedAxis] >= target[CroppedAxis]
        /\ crop_box[1] >= 0
        /\ crop_box[2] >= 0
        /\ crop_box[3] <= scaled[1]
        /\ crop_box[4] <= scaled[2]

----------------------------------------------------------------------------
(* Claims about staging and the canonical store                            *)

\* C31: staging is local: a blog_creator call, successful or failed, leaves
\* the canonical store as it was; it returns status success with the path of
\* a file that exists, or, after a local I/O failure, status error, and it
\* raises nothing.
C31_StagingIsLocal ==
    [][returned'.tool = "blog_creator" =>
          /\ store' = store
          /\ returned'.status \in {"success", "error"}
          /\ returned'.status = "success" => returned'.ref \in DOMAIN files'
          /\ returned'.status = "error" => returned' = CreatorFailure]_vars

\* a write failed half way while the store held a row: the store still holds
\* it and the call has returned status error
C31_Witness ==
    /\ returned = CreatorFailure
    /\ store # <<>>
    /\ \E p \in DOMAIN files : files[p] = EmptyFile

\* the run was ended by a blog_inserter invocation that raised
InserterRaised ==
    /\ FAILED
    /\ i <= Len(response)
    /\ response[i].name = "blog_inserter"

----------------------------------------------------------------------------
(* Claims about the step in which blog_inserter succeeds                   *)

\* the step in which blog_inserter has succeeded is still being processed
AfterSuccess == pc = "for" /\ blog_inserted

\* the item at position i is handled and the for loop goes on: an invocation
\* is dispatched and its envelope recorded under its id
ItemProcessed ==
    /\ pc' = "for"
    /\ i' = i + 1
    /\ blog_inserted'
    /\ IsToolUse(response[i]) =>
          /\ dispatched' = Append(dispatched, i)
          /\ Len(tool_results') = Len(tool_results) + 1
          /\ SubSeq(tool_results', 1, Len(tool_results)) = tool_results
          /\ tool_results'[Len(tool_results')].tool_use_id = ToolUseId(iteration, i)

\* the step is over: both turns are appended and the loop test comes next
StepAppended ==
    /\ pc' = "while"
    /\ messages' = messages \o ContinueTurns
    /\ Len(appended') = 2
    /\ ResultIds(appended'[2]) = ResultIds(tool_results)
    /\ ResultIds(appended'[2]) = InvocationIds(appended'[1])

\* C33: a successful blog_inserter invocation does not cut its step short:
\* every item that follows it in the response is processed in order, every
\* invocation among them is dispatched and its envelope recorded, the
\* assistant turn and the user turn of results are appended, and only then
\* does the loop test end the loop.
C33_Original ==
    [][/\ AfterSuccess => IF i <= Len(response) THEN ItemProcessed ELSE StepAppended
       /\ (pc = "while" /\ blog_inserted) => (pc' = "end" /\ exit_via' = "while")]_vars

----------------------------------------------------------------------------
(* Claims about the two implementations of blog_inserter                   *)

\* the implementation the call was not made with
OtherImpl == IF commit_impl = "tools" THEN "script" ELSE "tools"

====
